---- MODULE Spec2Model ----
(***************************************************************************)
(* Meeting-activity tracking of DeeBest22/Update.                          *)
(*                                                                         *)
(* Two revisions of the server module coexist in the repository:           *)
(*   - the Map-based revision (src/unnamed/part_002): a process-wide Map   *)
(*     activeMeetingSessions keyed by socket.id, an 'in-progress' record   *)
(*     per start signal, updateOne-based finalize, two periodic sweeps and *)
(*     four HTTP endpoints;                                                *)
(*   - the single-flag revision (src/modules/meetingBooking.js, from line  *)
(*     1662): socket.meetingData with an activitySaved flag.               *)
(* The browser side is ParticipantMeetingTracker (src/unnamed/part_001).   *)
(*                                                                         *)
(* Every handler is an async function: the code up to its first await runs *)
(* in one step of the event loop, each awaited store call is a step of its *)
(* own, and the code after it is a later step.  Calls that are awaited are *)
(* kept in the bag `pending` until they are performed.                     *)
(*                                                                         *)
(* Time is counted in half minutes (30 s), the resolution at which         *)
(* Math.round(ms / 60000) changes its result.  Fields of the documents     *)
(* that no handler of the tracking code reads or changes after creation    *)
(* (participantCount, leaveTime which always equals endTime, createdAt)    *)
(* are left out of the records.                                            *)
(***************************************************************************)
EXTENDS Integers, Sequences, FiniteSets, Bags, TLC

VARIABLES
    now,                    \* wall clock (new Date()), in half minutes
    activeMeetingSessions,  \* part_002:30  Map socket.id -> session data
    activities,             \* the MeetingActivity collection, in insertion order
    pending,                \* bag of awaited calls and their continuations
    emitted,                \* 'activity-updated' emits, counted per session key
    errors,                 \* exceptions caught and logged by a handler
    budget,                 \* signals and requests the environment still delivers
    epoch,                  \* history: session starts per key that found no live session
    finalized,              \* history: a termination handler ran to its end since the last start
    replays,                \* history: termination signals delivered to a finalized socket
    newest,                 \* history: the name signal with the greatest own timestamp
    lastNamed,              \* history: the name of the most recently processed name signal
    meetingData,            \* meetingBooking.js: socket.meetingData of each socket
    connected,              \* meetingBooking.js: the socket has not disconnected yet
    savedActivities,        \* meetingBooking.js: the MeetingActivity collection
    saving,                 \* meetingBooking.js: bag of handlers awaiting activity.save()
    timeouts,               \* meetingBooking.js: setTimeout callbacks not yet run, per socket
    notified,               \* meetingBooking.js: 'meeting-completed' emits, per socket
    caught,                 \* meetingBooking.js: exceptions caught and logged by a handler
    begun,                  \* history: sessions started on each socket
    origin,                 \* history: socket, session and handler of each saved record
    tracker,                \* part_001: fields of the ParticipantMeetingTracker
    fetching,               \* part_001: the tracker's methods awaiting fetch(), oldest first
    wire,                   \* part_001: events the tracker's socket emitted, not yet handled
    cleanupRanAt,           \* part_002:285  when the 2-minute interval timer last fired
    enhancedRanAt,          \* part_002:672  when the 5-minute interval timer last fired
    oldMeetings,            \* meetingBooking.js: the Meeting collection, in insertion order
    enhancedMeetings,       \* meetingBooking.js: the EnhancedMeeting collection
    migrating,              \* meetingBooking.js: each run of migrateOldMeetings and where it is
    creator,                \* part_000: fields of the MeetingCreator and of its form
    deleting                \* meetingBooking.js: the DELETE /api/meetings/:id request being handled

\* the state of the single-flag revision (src/modules/meetingBooking.js)
flagVars == <<meetingData, connected, savedActivities, saving, timeouts, notified,
              caught, begun, origin>>

\* the state of the Map-based revision (src/unnamed/part_002), clock and budget apart
mapVars == <<activeMeetingSessions, activities, pending, emitted, errors,
             epoch, finalized, replays, newest, lastNamed>>

\* the state of the participant's page (src/unnamed/part_001)
trackerVars == <<tracker, fetching, wire>>

\* the interval timers of the sweeps (src/unnamed/part_002)
timerVars == <<cleanupRanAt, enhancedRanAt>>

\* the meeting migration (src/modules/meetingBooking.js) and the page that
\* creates a meeting (src/unnamed/part_000)
bookingVars == <<oldMeetings, enhancedMeetings, migrating, creator, deleting>>

\* what the tracking code leaves as it is besides its own state
sideVars == <<timerVars, bookingVars>>

\* what the handlers of the Map-based revision leave as it is
otherVars == <<flagVars, trackerVars, sideVars>>

vars == <<now, budget, mapVars, flagVars, trackerVars, sideVars>>

-----------------------------------------------------------------------------
(* Bounds and input sets *)

MaxOps == 3
MaxNameOps == 4

Sockets == {"s1"}
HttpSessionIds == {"unknown", "p1"}
Keys == Sockets \cup HttpSessionIds
UserIds == {"u1"}
MeetingIds == {"m1"}
Names == {"A", "B"}

NoSession == [none |-> TRUE]
NoTime == -1
NoDuration == -1

-----------------------------------------------------------------------------
(* JavaScript helpers *)

\* a || b on strings: the empty string (and undefined, modelled as "") is falsy
OrElse(a, b) == IF a # "" THEN a ELSE b

\* String.prototype.trim on the payload strings the model draws
Trim(str) == IF str = " " THEN "" ELSE str

\* whole minutes only: Math.floor in place of Math.round
MinutesFloored(end, start) == (end - start) \div 2

\* Math.round((end - start) / (1000 * 60)) with both times in half minutes:
\* Math.round rounds halves up
MinutesRounded(end, start) == (end - start + 1) \div 2

\* Math.max(1, duration)
AtLeastOne(duration) == IF duration < 1 THEN 1 ELSE duration

\* 5 * 60 * 1000 ms and 10 * 60 * 1000 ms, in half minutes
SoftThreshold == 10
HardThreshold == 20

-----------------------------------------------------------------------------
(* The store: MeetingActivity documents *)

NewActivity(userId, meetingName, meetingId, isHost, sessionId, t) ==
    [userId |-> userId, meetingName |-> meetingName, meetingId |-> meetingId,
     status |-> "in-progress", duration |-> NoDuration,
     startTime |-> t, endTime |-> NoTime, isHost |-> isHost, joinTime |-> t,
     finalMeetingName |-> "", sessionId |-> sessionId, lastSeen |-> t]

\* a query filter of equalities
Matches(doc, filter) == \A f \in DOMAIN filter : doc[f] = filter[f]

\* the documents a filter selects, as indices
Matching(acts, filter) == {i \in 1..Len(acts) : Matches(acts[i], filter)}

\* the document findOne / updateOne act on: the first match in insertion order
FirstMatch(acts, filter) ==
    LET m == Matching(acts, filter)
    IN  IF m = {} THEN 0 ELSE CHOOSE i \in m : \A j \in m : i <= j

\* $set
Assign(doc, set) == [f \in DOMAIN doc |-> IF f \in DOMAIN set THEN set[f] ELSE doc[f]]

\* Model.updateOne(filter, set)
UpdateOne(acts, filter, set) ==
    LET i == FirstMatch(acts, filter)
    IN  IF i = 0 THEN acts ELSE [acts EXCEPT ![i] = Assign(@, set)]

\* updateResult.modifiedCount
ModifiedCount(acts, filter) == IF FirstMatch(acts, filter) = 0 THEN 0 ELSE 1

\* document.save() of a loaded document: writes the changed paths by _id
SaveById(acts, id, set) == [acts EXCEPT ![id] = Assign(@, set)]

\* io.to(`user_${userId}`).emit('activity-updated', {type, ...})
Emit(em, key, type) == [em EXCEPT ![key][type] = @ + 1]

Add(bag, op) == bag (+) SetToBag({op})
Remove(bag, op) == bag (-) SetToBag({op})

-----------------------------------------------------------------------------
InitTracking(deliveries) ==
    /\ now = 0
    /\ activeMeetingSessions = [s \in Sockets |-> NoSession]
    /\ activities = <<>>
    /\ pending = EmptyBag
    /\ emitted = [k \in Keys |-> [completed |-> 0, updated |-> 0]]
    /\ errors = 0
    /\ budget = deliveries
    /\ epoch = [k \in Keys |-> 0]
    /\ finalized = [s \in Sockets |-> FALSE]
    /\ replays = [s \in Sockets |-> 0]
    /\ newest = [s \in Sockets |-> [ts |-> NoTime, name |-> ""]]
    /\ lastNamed = [s \in Sockets |-> ""]
    /\ meetingData = [s \in Sockets |-> NoSession]
    /\ connected = [s \in Sockets |-> TRUE]
    /\ savedActivities = <<>>
    /\ saving = EmptyBag
    /\ timeouts = [s \in Sockets |-> 0]
    /\ notified = [s \in Sockets |-> 0]
    /\ caught = 0
    /\ begun = [s \in Sockets |-> 0]
    /\ origin = <<>>
    /\ tracker = [currentUser |-> "u1", meetingId |-> "m1", meetingName |-> "A",
                  sessionId |-> "p1", joinTime |-> 0, isTracking |-> FALSE,
                  heartbeatInterval |-> FALSE, connected |-> TRUE,
                  initialized |-> FALSE, exits |-> 0]
    /\ fetching = <<>>
    /\ wire = <<>>
    /\ cleanupRanAt = 0
    /\ enhancedRanAt = 0

\* the runs of migrateOldMeetings: the one setupMeetingBooking starts and
\* the ones POST /api/meetings/migrate starts
Runs == {"startup", "manual"}

\* new MeetingCreator() on a page whose title field holds a title of
\* titleLength characters, no migration under way and no delete request
InitBooking(old, titleLength) ==
    /\ oldMeetings = old
    /\ enhancedMeetings = <<>>
    /\ migrating = [r \in Runs |-> [pc |-> "idle", todo |-> <<>>, ran |-> 0]]
    /\ creator = [titleInput |-> titleLength, emailInput |-> "", participants |-> {},
                  titleError |-> FALSE, emailError |-> FALSE, isCreating |-> FALSE,
                  submitBtnDisabled |-> FALSE, awaiting |-> 0, reading |-> 0,
                  response |-> "none", page |-> "form"]
    /\ deleting = [pc |-> "idle", id |-> <<"old", 1>>, currentUser |-> "", meeting |-> "",
                   isEnhanced |-> FALSE, status |-> 0, emitted |-> 0]

InitWith(deliveries) == InitTracking(deliveries) /\ InitBooking(<<>>, 0)

\* time passes: the clock moves to a later one of the instants
Tick(instants) ==
    /\ \E t \in instants : t > now /\ now' = t
    /\ UNCHANGED <<activeMeetingSessions, activities, pending, emitted, errors, budget,
                   epoch, finalized, replays, newest, lastNamed>>

-----------------------------------------------------------------------------
(* Socket handlers of the Map-based revision (part_002, setupSocketHandlers) *)

TriggerHandlers == {"meeting-ended", "participant-left-meeting", "disconnect"}

\* the name a finalize writes when the session data is what decides it
ResolvedName(sessionData) == OrElse(sessionData.finalMeetingName, sessionData.meetingName)

\* a handler that forgets the delete
DeleteSessionSkipped(sessions, s) == sessions

\* activeMeetingSessions.delete(socket.id)
DeleteSession(sessions, s) == [sessions EXCEPT ![s] = NoSession]

\* activeMeetingSessions.set(socket.id, {...}) and new MeetingActivity({...}),
\* shared by 'meeting-started' and 'participant-joined-meeting'
StartSession(s, data, isHost, h) ==
    /\ budget > 0
    /\ budget' = budget - 1
    /\ IF data.userId = "" \/ data.meetingId = "" \/ data.meetingName = ""
       THEN UNCHANGED <<activeMeetingSessions, pending, epoch, finalized, newest, lastNamed>>
       ELSE /\ activeMeetingSessions' = [activeMeetingSessions EXCEPT ![s] =
                    [meetingId |-> data.meetingId, meetingName |-> data.meetingName,
                     userId |-> data.userId, startTime |-> now, joinTime |-> now,
                     isHost |-> isHost, finalMeetingName |-> "", lastSeen |-> now]]
            /\ pending' = Add(pending,
                    [h |-> h, stage |-> "save", key |-> s,
                     doc |-> NewActivity(data.userId, data.meetingName, data.meetingId,
                                         isHost, s, now)])
            /\ epoch' = IF activeMeetingSessions[s] = NoSession
                        THEN [epoch EXCEPT ![s] = @ + 1] ELSE epoch
            /\ finalized' = [finalized EXCEPT ![s] = FALSE]
            /\ newest' = [newest EXCEPT ![s] = [ts |-> NoTime, name |-> ""]]
            /\ lastNamed' = [lastNamed EXCEPT ![s] = data.meetingName]
    /\ UNCHANGED <<now, activities, emitted, errors, replays>>

\* socket.on('meeting-started')
MeetingStarted(s, data) == StartSession(s, data, data.isHost, "meeting-started")

\* socket.on('participant-joined-meeting')
ParticipantJoined(s, data) == StartSession(s, data, FALSE, "participant-joined-meeting")

\* history of the name signals a live session has processed
NoteName(s, name, ts) ==
    /\ newest' = [newest EXCEPT ![s] =
            IF ts > @.ts THEN [ts |-> ts, name |-> name]
            ELSE IF ts = @.ts /\ name # @.name THEN [ts |-> ts, name |-> ""]
            ELSE @]
    /\ lastNamed' = [lastNamed EXCEPT ![s] = name]

\* socket.on('meeting-name-changed')
MeetingNameChanged(s, data) ==
    /\ budget > 0
    /\ budget' = budget - 1
    /\ IF data.meetingId = "" \/ data.newName = ""
       THEN UNCHANGED <<activeMeetingSessions, pending, newest, lastNamed>>
       ELSE LET sessionData == activeMeetingSessions[s]
                live == sessionData # NoSession /\ sessionData.meetingId = data.meetingId
            IN  /\ activeMeetingSessions' =
                     IF live
                     THEN [activeMeetingSessions EXCEPT ![s] =
                              [sessionData EXCEPT !.meetingName = data.newName,
                                                  !.finalMeetingName = data.newName,
                                                  !.lastSeen = now]]
                     ELSE activeMeetingSessions
                /\ pending' = Add(pending,
                     [h |-> "meeting-name-changed", stage |-> "update", key |-> s,
                      filter |-> [meetingId |-> data.meetingId, sessionId |-> s,
                                  status |-> "in-progress"],
                      set |-> [finalMeetingName |-> data.newName, lastSeen |-> now]])
                /\ IF live THEN NoteName(s, data.newName, data.timestamp)
                   ELSE UNCHANGED <<newest, lastNamed>>
    /\ UNCHANGED <<now, activities, emitted, errors, epoch, finalized, replays>>

\* socket.on('meeting-heartbeat')
MeetingHeartbeat(s, data) ==
    LET sessionData == activeMeetingSessions[s]
        live == sessionData # NoSession
    IN  /\ budget > 0
        /\ budget' = budget - 1
        /\ activeMeetingSessions' =
             IF live
             THEN [activeMeetingSessions EXCEPT ![s] =
                      [sessionData EXCEPT
                          !.lastSeen = now,
                          !.finalMeetingName =
                              IF data.meetingName # "" /\ data.meetingName # sessionData.meetingName
                              THEN data.meetingName ELSE @]]
             ELSE activeMeetingSessions
        /\ pending' = Add(pending,
             [h |-> "meeting-heartbeat", stage |-> "update", key |-> s,
              filter |-> [meetingId |-> data.meetingId, userId |-> data.userId,
                          sessionId |-> s, status |-> "in-progress"],
              set |-> IF data.meetingName # ""
                      THEN [lastSeen |-> now, finalMeetingName |-> data.meetingName]
                      ELSE [lastSeen |-> now]])
        /\ IF live /\ data.meetingName # ""
           THEN NoteName(s, data.meetingName, data.timestamp)
           ELSE UNCHANGED <<newest, lastNamed>>
        /\ UNCHANGED <<now, activities, emitted, errors, epoch, finalized, replays>>

\* the part of a termination handler before its await: the lookup, the computed
\* endTime, duration and finalMeetingName, and the updateOne it issues
Finalize(s, h, payloadName, sinceField) ==
    LET sessionData == activeMeetingSessions[s]
    IN  /\ budget > 0
        /\ budget' = budget - 1
        /\ IF sessionData = NoSession
           THEN UNCHANGED pending
           ELSE pending' = Add(pending,
                  [h |-> h, stage |-> "update", key |-> s,
                   filter |-> [userId |-> sessionData.userId,
                               meetingId |-> sessionData.meetingId,
                               sessionId |-> s, status |-> "in-progress"],
                   set |-> [status |-> "completed", endTime |-> now,
                            duration |-> MinutesRounded(now, sessionData[sinceField]),
                            finalMeetingName |-> OrElse(Trim(payloadName),
                                                        ResolvedName(sessionData)),
                            lastSeen |-> now],
                   sessionData |-> sessionData])
        /\ replays' = IF finalized[s] THEN [replays EXCEPT ![s] = @ + 1] ELSE replays
        /\ UNCHANGED <<now, activeMeetingSessions, activities, emitted, errors,
                       epoch, finalized, newest, lastNamed>>

\* socket.on('meeting-ended')
MeetingEnded(s, data) == Finalize(s, "meeting-ended", data.meetingName, "startTime")

\* socket.on('participant-left-meeting')
ParticipantLeft(s, data) ==
    Finalize(s, "participant-left-meeting", data.meetingName, "joinTime")

\* handleDisconnect
HandleDisconnect(s) == Finalize(s, "disconnect", "", "joinTime")

\* await activity.save() of a start handler or of POST /api/meeting-activity/start:
\* the document is inserted
StoreSave(op) ==
    /\ op.stage = "save" /\ op.h # "post-activity"
    /\ activities' = Append(activities, op.doc)
    /\ pending' = Remove(pending, op)
    /\ UNCHANGED <<now, activeMeetingSessions, emitted, errors, budget,
                   epoch, finalized, replays, newest, lastNamed>>

\* await MeetingActivity.updateOne(filter, set): the store applies it
StoreUpdate(op) ==
    /\ op.stage = "update"
    /\ activities' = UpdateOne(activities, op.filter, op.set)
    /\ pending' =
         IF op.h \in TriggerHandlers
         THEN Add(Remove(pending, op),
                  [h |-> op.h, stage |-> "resume", key |-> op.key, set |-> op.set,
                   sessionData |-> op.sessionData,
                   modifiedCount |-> ModifiedCount(activities, op.filter)])
         ELSE Remove(pending, op)
    /\ UNCHANGED <<now, activeMeetingSessions, emitted, errors, budget,
                   epoch, finalized, replays, newest, lastNamed>>

\* whether the handler emits 'meeting-completed' after its updateOne:
\* handleDisconnect tests updateResult.modifiedCount, the other two do not
EmitsCompleted(op) == op.h = "disconnect" => op.modifiedCount > 0

\* the code after the await of a termination handler: delete and emit
Resume(op) ==
    /\ op.stage = "resume"
    /\ activeMeetingSessions' = DeleteSession(activeMeetingSessions, op.key)
    /\ emitted' = IF EmitsCompleted(op) THEN Emit(emitted, op.key, "completed") ELSE emitted
    /\ pending' = Remove(pending, op)
    /\ finalized' = [finalized EXCEPT ![op.key] = TRUE]
    /\ UNCHANGED <<now, activities, errors, budget, epoch, replays, newest, lastNamed>>

-----------------------------------------------------------------------------
(* Spec: session starts and termination triggers of the Map-based revision *)

Instants == {0, 1, 5}
StartData ==
    [userId : UserIds, meetingId : MeetingIds, meetingName : {"A", ""}, isHost : {TRUE}]
JoinData == [userId : UserIds, meetingId : MeetingIds, meetingName : {"A"}]
EndData == [meetingName : {"", "B"}]

Next ==
    \/ Tick(Instants) /\ UNCHANGED otherVars
    \/ \E s \in Sockets, data \in StartData : MeetingStarted(s, data) /\ UNCHANGED otherVars
    \/ \E s \in Sockets, data \in JoinData : ParticipantJoined(s, data)
          /\ UNCHANGED otherVars
    \/ \E s \in Sockets, data \in EndData : MeetingEnded(s, data) /\ UNCHANGED otherVars
    \/ \E s \in Sockets, data \in EndData : ParticipantLeft(s, data) /\ UNCHANGED otherVars
    \/ \E s \in Sockets : HandleDisconnect(s) /\ UNCHANGED otherVars
    \/ \E op \in BagToSet(pending) : StoreSave(op) /\ UNCHANGED otherVars
    \/ \E op \in BagToSet(pending) : StoreUpdate(op) /\ UNCHANGED otherVars
    \/ \E op \in BagToSet(pending) : Resume(op) /\ UNCHANGED otherVars

Init == InitWith(MaxOps)

Spec == Init /\ [][Next]_vars

-----------------------------------------------------------------------------
(* SpecNames: name signals of a session and its finalize *)

NameInstants == {0, 1}
NameData ==
    [meetingId : MeetingIds, newName : Names, timestamp : {t \in NameInstants : t <= now}]
HeartbeatData ==
    [meetingId : MeetingIds, userId : UserIds, meetingName : Names \cup {""},
     timestamp : {t \in NameInstants : t <= now}]

\* a name signal's own timestamp is not older than the session it is sent in
SentInSession(s, data) ==
    activeMeetingSessions[s] # NoSession
        => data.timestamp >= activeMeetingSessions[s].joinTime

NextNames ==
    \/ Tick(NameInstants) /\ UNCHANGED otherVars
    \/ \E s \in Sockets, data \in JoinData : ParticipantJoined(s, data)
          /\ UNCHANGED otherVars
    \/ \E s \in Sockets, data \in NameData :
            SentInSession(s, data) /\ MeetingNameChanged(s, data)
          /\ UNCHANGED otherVars
    \/ \E s \in Sockets, data \in HeartbeatData :
            SentInSession(s, data) /\ MeetingHeartbeat(s, data)
          /\ UNCHANGED otherVars
    \/ \E s \in Sockets, data \in EndData : MeetingEnded(s, data) /\ UNCHANGED otherVars
    \/ \E s \in Sockets : HandleDisconnect(s) /\ UNCHANGED otherVars
    \/ \E op \in BagToSet(pending) : StoreSave(op) /\ UNCHANGED otherVars
    \/ \E op \in BagToSet(pending) : StoreUpdate(op) /\ UNCHANGED otherVars
    \/ \E op \in BagToSet(pending) : Resume(op) /\ UNCHANGED otherVars

InitNames == InitWith(MaxNameOps)

SpecNames == InitNames /\ [][NextNames]_vars

-----------------------------------------------------------------------------
(* HTTP endpoints and periodic sweeps of the Map-based revision (part_002) *)

\* document.save() sends the paths whose value differs from the loaded document
ChangedPaths(loaded, set) ==
    [f \in {g \in DOMAIN set : set[g] # loaded[g]} |-> set[f]]

\* the first index of a set of matches, 0 when there is none
FirstOf(m) == IF m = {} THEN 0 ELSE CHOOSE i \in m : \A j \in m : i <= j

\* app.post('/api/meeting-activity/start') up to await activity.save()
PostStart(userId, body) ==
    /\ budget > 0
    /\ budget' = budget - 1
    /\ IF body.meetingName = "" \/ body.meetingId = ""
       THEN UNCHANGED <<pending, epoch>>
       ELSE LET sessionId == OrElse(body.sessionId, "unknown")
            IN  /\ pending' = Add(pending,
                      [h |-> "post-start", stage |-> "save", key |-> sessionId,
                       doc |-> NewActivity(userId, body.meetingName, body.meetingId,
                                           body.isHost, sessionId, now)])
                /\ epoch' = [epoch EXCEPT ![sessionId] = @ + 1]
    /\ UNCHANGED <<now, activeMeetingSessions, activities, emitted, errors,
                   finalized, replays, newest, lastNamed>>

\* a number on the left of || that makes JavaScript take the right-hand side
Falsy(n) == n = NoDuration \/ n = 0

\* app.post('/api/meeting-activity') up to await MeetingActivity.findOne
PostActivity(userId, body) ==
    /\ budget > 0
    /\ budget' = budget - 1
    /\ pending' =
         IF body.meetingName = "" \/ body.meetingId = ""
         THEN pending
         ELSE Add(pending, [h |-> "post-activity", stage |-> "find",
                            key |-> OrElse(body.sessionId, "unknown"),
                            userId |-> userId, body |-> body])
    /\ UNCHANGED <<now, activeMeetingSessions, activities, emitted, errors,
                   epoch, finalized, replays, newest, lastNamed>>

\* findOne({userId, meetingId, sessionId, status: {$in: ['in-progress', 'completed']}})
\* returns; an existing document is changed in memory and saved, otherwise a new
\* one is built and saved
FindActivity(op) ==
    /\ op.h = "post-activity" /\ op.stage = "find"
    /\ LET body == op.body
           id == FirstOf({i \in Matching(activities,
                                [userId |-> op.userId, meetingId |-> body.meetingId,
                                 sessionId |-> op.key]) :
                            activities[i].status \in {"in-progress", "completed"}})
           endTime == IF body.endTime # NoTime THEN body.endTime ELSE now
       IN  pending' = Add(Remove(pending, op),
             IF id # 0
             THEN [h |-> op.h, stage |-> "save-loaded", key |-> op.key, id |-> id,
                   body |-> body, loaded |-> activities[id],
                   set |-> [finalMeetingName |-> OrElse(body.finalMeetingName, body.meetingName),
                            endTime |-> endTime,
                            status |-> OrElse(body.status, "completed"),
                            duration |-> IF Falsy(body.duration)
                                         THEN MinutesRounded(endTime, activities[id].startTime)
                                         ELSE body.duration,
                            lastSeen |-> now],
                   type |-> "updated"]
             ELSE [h |-> op.h, stage |-> "save", key |-> op.key,
                   doc |-> [NewActivity(op.userId, body.meetingName, body.meetingId,
                                        FALSE, op.key, now)
                            EXCEPT !.status = OrElse(body.status, "completed"),
                                   !.duration = body.duration,
                                   !.startTime = IF body.startTime # NoTime
                                                 THEN body.startTime ELSE now,
                                   !.endTime = endTime,
                                   !.joinTime = body.joinTime,
                                   !.finalMeetingName =
                                       OrElse(body.finalMeetingName, body.meetingName)]])
    /\ UNCHANGED <<now, activeMeetingSessions, activities, emitted, errors, budget,
                   epoch, finalized, replays, newest, lastNamed>>

\* app.post('/api/meeting-activity/update-name') up to await MeetingActivity.findOne
PostUpdateName(userId, body) ==
    /\ budget > 0
    /\ budget' = budget - 1
    /\ pending' =
         IF body.meetingId = "" \/ body.newName = ""
         THEN pending
         ELSE Add(pending, [h |-> "post-update-name", stage |-> "find",
                            key |-> OrElse(body.sessionId, "unknown"),
                            userId |-> userId, body |-> body])
    /\ UNCHANGED <<now, activeMeetingSessions, activities, emitted, errors,
                   epoch, finalized, replays, newest, lastNamed>>

\* findOne({userId, meetingId, sessionId, status: 'in-progress'}) returns
FindForName(op) ==
    /\ op.h = "post-update-name" /\ op.stage = "find"
    /\ LET id == FirstMatch(activities,
                    [userId |-> op.userId, meetingId |-> op.body.meetingId,
                     sessionId |-> op.key, status |-> "in-progress"])
       IN  pending' =
             IF id = 0 THEN Remove(pending, op)
             ELSE Add(Remove(pending, op),
                      [h |-> op.h, stage |-> "save-loaded", key |-> op.key, id |-> id,
                       body |-> op.body, loaded |-> activities[id],
                       set |-> [finalMeetingName |-> Trim(op.body.newName),
                                lastSeen |-> now],
                       type |-> "none"])
    /\ UNCHANGED <<now, activeMeetingSessions, activities, emitted, errors, budget,
                   epoch, finalized, replays, newest, lastNamed>>

\* await <loaded document>.save() returns, and the handler emits what it emits
SaveLoaded(op) ==
    /\ op.stage = "save-loaded"
    /\ activities' = SaveById(activities, op.id, ChangedPaths(op.loaded, op.set))
    /\ emitted' = IF op.type = "none" THEN emitted ELSE Emit(emitted, op.key, op.type)
    /\ pending' = Remove(pending, op)
    /\ UNCHANGED <<now, activeMeetingSessions, errors, budget,
                   epoch, finalized, replays, newest, lastNamed>>

\* await activity.save() of a new document built by POST /api/meeting-activity
\* returns, and the handler emits 'meeting-completed'
SaveNewActivity(op) ==
    /\ op.h = "post-activity" /\ op.stage = "save"
    /\ activities' = Append(activities, op.doc)
    /\ emitted' = Emit(emitted, op.key, "completed")
    /\ pending' = Remove(pending, op)
    /\ UNCHANGED <<now, activeMeetingSessions, errors, budget,
                   epoch, finalized, replays, newest, lastNamed>>

\* the interval timer runs a sweep: cleanupAbandonedSessions (5 minutes, from
\* startTime) or enhancedCleanup (10 minutes, from joinTime, at least 1 minute)
IssueFind(h, threshold) ==
    /\ pending' = Add(pending, [h |-> h, stage |-> "sweep-find", key |-> "",
                                cutoff |-> now - threshold])
    /\ UNCHANGED <<now, activeMeetingSessions, activities, emitted, errors,
                   epoch, finalized, replays, newest, lastNamed>>

\* a sweep run at a moment the environment chooses
Sweep(h, threshold) ==
    /\ budget > 0
    /\ budget' = budget - 1
    /\ IssueFind(h, threshold)

CleanupAbandonedSessions == Sweep("cleanup", SoftThreshold)

EnhancedCleanup == Sweep("enhanced", HardThreshold)

\* a find that selects nothing
StaleLoadedNone(acts, cutoff) == <<>>

\* the documents find({status: 'in-progress', lastSeen: {$lt: cutoff}}) loads,
\* in insertion order
StaleLoaded(acts, cutoff) ==
    LET stale(i) == acts[i].status = "in-progress" /\ acts[i].lastSeen < cutoff
        F[i \in 0..Len(acts)] ==
            IF i = 0 THEN <<>>
            ELSE IF stale(i) THEN Append(F[i - 1], [id |-> i, loaded |-> acts[i]])
            ELSE F[i - 1]
    IN  F[Len(acts)]

\* a sweep that ends the session at the time it runs
SweptFieldsAtSweepTime(h, loaded) ==
    [status |-> "completed", endTime |-> now,
     duration |-> MinutesRounded(now, loaded.startTime)]

\* the fields a sweep sets on a loaded document
SweptFields(h, loaded) ==
    IF h = "cleanup"
    THEN [status |-> "completed", endTime |-> loaded.lastSeen,
          duration |-> MinutesRounded(loaded.lastSeen, loaded.startTime)]
    ELSE [status |-> "completed", endTime |-> loaded.lastSeen,
          duration |-> AtLeastOne(MinutesRounded(loaded.lastSeen, loaded.joinTime))]

\* await MeetingActivity.find(...) of a sweep returns
SweepFind(op) ==
    /\ op.stage = "sweep-find"
    /\ LET docs == StaleLoaded(activities, op.cutoff)
       IN  pending' = IF docs = <<>> THEN Remove(pending, op)
                      ELSE Add(Remove(pending, op),
                               [h |-> op.h, stage |-> "sweep-save", key |-> "",
                                docs |-> docs])
    /\ UNCHANGED <<now, activeMeetingSessions, activities, emitted, errors, budget,
                   epoch, finalized, replays, newest, lastNamed>>

\* one turn of the sweep's loop: await session.save() returns, the sweep emits
\* 'meeting-completed' and goes on to the next loaded document
SweepSave(op) ==
    /\ op.stage = "sweep-save"
    /\ LET d == Head(op.docs)
       IN  /\ activities' = SaveById(activities, d.id,
                                     ChangedPaths(d.loaded, SweptFields(op.h, d.loaded)))
           /\ emitted' = Emit(emitted, d.loaded.sessionId, "completed")
           /\ pending' = IF Tail(op.docs) = <<>> THEN Remove(pending, op)
                         ELSE Add(Remove(pending, op), [op EXCEPT !.docs = Tail(@)])
    /\ UNCHANGED <<now, activeMeetingSessions, errors, budget,
                   epoch, finalized, replays, newest, lastNamed>>

-----------------------------------------------------------------------------
(* SpecStore: one socket session, the HTTP endpoints and the sweeps *)

StoreInstants == {0, 11, 21}
PostStartData ==
    [meetingName : {"A"}, meetingId : MeetingIds, isHost : {FALSE}, sessionId : {"p1"}]
PostActivityData ==
    [meetingName : {"B"}, meetingId : MeetingIds, status : {"completed"},
     duration : {NoDuration, 1}, startTime : {NoTime}, endTime : {NoTime},
     joinTime : {NoTime}, finalMeetingName : {"B"}, sessionId : {"p1"}]
PostNameData == [meetingId : MeetingIds, newName : {"B"}, sessionId : {"p1"}]

NextStore ==
    \/ Tick(StoreInstants) /\ UNCHANGED otherVars
    \/ \E s \in Sockets, data \in StartData : MeetingStarted(s, data) /\ UNCHANGED otherVars
    \/ \E s \in Sockets : MeetingEnded(s, [meetingName |-> ""]) /\ UNCHANGED otherVars
    \/ \E s \in Sockets : HandleDisconnect(s) /\ UNCHANGED otherVars
    \/ \E u \in UserIds, body \in PostStartData : PostStart(u, body) /\ UNCHANGED otherVars
    \/ \E u \in UserIds, body \in PostActivityData : PostActivity(u, body)
          /\ UNCHANGED otherVars
    \/ \E u \in UserIds, body \in PostNameData : PostUpdateName(u, body)
          /\ UNCHANGED otherVars
    \/ CleanupAbandonedSessions /\ UNCHANGED otherVars
    \/ EnhancedCleanup /\ UNCHANGED otherVars
    \/ \E op \in BagToSet(pending) : StoreSave(op) /\ UNCHANGED otherVars
    \/ \E op \in BagToSet(pending) : StoreUpdate(op) /\ UNCHANGED otherVars
    \/ \E op \in BagToSet(pending) : Resume(op) /\ UNCHANGED otherVars
    \/ \E op \in BagToSet(pending) : FindActivity(op) /\ UNCHANGED otherVars
    \/ \E op \in BagToSet(pending) : FindForName(op) /\ UNCHANGED otherVars
    \/ \E op \in BagToSet(pending) : SaveLoaded(op) /\ UNCHANGED otherVars
    \/ \E op \in BagToSet(pending) : SaveNewActivity(op) /\ UNCHANGED otherVars
    \/ \E op \in BagToSet(pending) : SweepFind(op) /\ UNCHANGED otherVars
    \/ \E op \in BagToSet(pending) : SweepSave(op) /\ UNCHANGED otherVars

SpecStore == Init /\ [][NextStore]_vars

-----------------------------------------------------------------------------
(* Socket handlers of the single-flag revision (meetingBooking.js,
   setupSocketHandlers).  activity.save() only inserts and nothing reads the
   collection, so the insert is taken when the awaiting handler resumes. *)

\* socket.meetingData = {...} of meeting-started and participant-joined-meeting
StartMeetingData(s, data, isHost) ==
    /\ budget > 0 /\ connected[s]
    /\ budget' = budget - 1
    /\ IF data.userId = "" \/ data.meetingId = "" \/ data.meetingName = ""
       THEN UNCHANGED <<meetingData, begun>>
       ELSE /\ meetingData' = [meetingData EXCEPT ![s] =
                                 [meetingId |-> data.meetingId,
                                  meetingName |-> data.meetingName,
                                  finalMeetingName |-> "",
                                  userId |-> data.userId,
                                  startTime |-> now, joinTime |-> now,
                                  isHost |-> isHost, activitySaved |-> FALSE]]
            /\ begun' = [begun EXCEPT ![s] = @ + 1]
    /\ UNCHANGED <<now, mapVars, trackerVars, sideVars, connected, savedActivities, saving, timeouts,
                   notified, caught, origin>>

\* socket.on('meeting-started')
FlagMeetingStarted(s, data) == StartMeetingData(s, data, data.isHost)

\* socket.on('participant-joined-meeting')
FlagParticipantJoined(s, data) == StartMeetingData(s, data, FALSE)

\* socket.on('meeting-name-changed')
FlagMeetingNameChanged(s, data) ==
    /\ budget > 0 /\ connected[s]
    /\ budget' = budget - 1
    /\ meetingData' =
         IF meetingData[s] # NoSession /\ meetingData[s].meetingId = data.meetingId
         THEN [meetingData EXCEPT ![s].meetingName = data.newName,
                                  ![s].finalMeetingName = data.newName]
         ELSE meetingData
    /\ UNCHANGED <<now, mapVars, trackerVars, sideVars, connected, savedActivities, saving, timeouts,
                   notified, caught, begun, origin>>

\* new MeetingActivity({... status: 'completed' ...}) of the three saving handlers
CompletedActivity(userId, meetingId, name, isHost, startTime, joinTime, endTime, duration) ==
    [userId |-> userId, meetingName |-> name, meetingId |-> meetingId,
     status |-> "completed", duration |-> duration, startTime |-> startTime,
     endTime |-> endTime, joinTime |-> joinTime, isHost |-> isHost,
     finalMeetingName |-> name]

\* meeting-ended and handleDisconnect from the test of activitySaved up to
\* await activity.save()
SaveUnlessSaved(s, h, payloadName) ==
    /\ saving' =
         IF meetingData[s] = NoSession \/ meetingData[s].activitySaved
         THEN saving
         ELSE LET md == meetingData[s]
              IN  Add(saving,
                      [h |-> h, socket |-> s, session |-> begun[s],
                       doc |-> CompletedActivity(md.userId, md.meetingId,
                                  OrElse(Trim(payloadName),
                                         OrElse(md.finalMeetingName, md.meetingName)),
                                  md.isHost, md.startTime, md.joinTime, now,
                                  MinutesRounded(now, md.startTime))])
    /\ UNCHANGED <<now, mapVars, trackerVars, sideVars, meetingData, savedActivities, timeouts,
                   notified, caught, begun, origin>>

\* socket.on('meeting-ended') up to await activity.save()
FlagMeetingEnded(s, data) ==
    /\ budget > 0 /\ connected[s]
    /\ budget' = budget - 1
    /\ SaveUnlessSaved(s, "meeting-ended", data.meetingName)
    /\ UNCHANGED connected

\* handleDisconnect up to await activity.save()
FlagHandleDisconnect(s) ==
    /\ budget > 0 /\ connected[s]
    /\ budget' = budget - 1
    /\ connected' = [connected EXCEPT ![s] = FALSE]
    /\ SaveUnlessSaved(s, "disconnect", "")

\* socket.on('participant-left-meeting') up to await activity.save(): it does
\* not look at activitySaved
FlagParticipantLeft(s, data) ==
    /\ budget > 0 /\ connected[s]
    /\ budget' = budget - 1
    /\ saving' =
         IF data.userId = "" \/ data.meetingId = ""
         THEN saving
         ELSE LET md == meetingData[s]
                  name == IF Trim(data.meetingName) # "" THEN Trim(data.meetingName)
                          ELSE IF md # NoSession
                               THEN OrElse(md.finalMeetingName, md.meetingName)
                               ELSE "Meeting"
                  startTime == IF md # NoSession THEN md.joinTime ELSE now
              IN  Add(saving,
                      [h |-> "participant-left-meeting", socket |-> s,
                       session |-> begun[s],
                       doc |-> CompletedActivity(data.userId, data.meetingId, name,
                                  FALSE, startTime, startTime, now,
                                  MinutesRounded(now, startTime))])
    /\ UNCHANGED <<now, mapVars, trackerVars, sideVars, meetingData, connected, savedActivities, timeouts,
                   notified, caught, begun, origin>>

\* await activity.save() returns and the handler runs to its end.  meeting-ended
\* and handleDisconnect read socket.meetingData again to set activitySaved: that
\* throws when it was cleared meanwhile, and marks the next session when one
\* was started meanwhile
Saved(op) ==
    /\ savedActivities' = Append(savedActivities, op.doc)
    /\ origin' = Append(origin, [socket |-> op.socket, session |-> op.session, h |-> op.h])
    /\ saving' = Remove(saving, op)
    /\ IF op.h = "participant-left-meeting"
       THEN /\ notified' = [notified EXCEPT ![op.socket] = @ + 1]
            /\ meetingData' = [meetingData EXCEPT ![op.socket] = NoSession]
            /\ UNCHANGED <<timeouts, caught>>
       ELSE IF meetingData[op.socket] = NoSession
       THEN /\ caught' = caught + 1
            /\ UNCHANGED <<meetingData, notified, timeouts>>
       ELSE /\ meetingData' = [meetingData EXCEPT ![op.socket].activitySaved = TRUE]
            /\ notified' = [notified EXCEPT ![op.socket] = @ + 1]
            /\ timeouts' = IF op.h = "meeting-ended"
                           THEN [timeouts EXCEPT ![op.socket] = @ + 1]
                           ELSE timeouts
            /\ UNCHANGED caught
    /\ UNCHANGED <<now, budget, mapVars, trackerVars, sideVars, connected, begun>>

\* setTimeout(() => { socket.meetingData = null; }, 1000) runs
ClearMeetingData(s) ==
    /\ timeouts[s] > 0
    /\ timeouts' = [timeouts EXCEPT ![s] = @ - 1]
    /\ meetingData' = [meetingData EXCEPT ![s] = NoSession]
    /\ UNCHANGED <<now, budget, mapVars, trackerVars, sideVars, connected, savedActivities, saving,
                   notified, caught, begun, origin>>

-----------------------------------------------------------------------------
(* SpecFlag: the socket handlers of the single-flag revision *)

FlagNameData == [meetingId : MeetingIds, newName : {"B"}]
LeftData == [userId : UserIds, meetingId : MeetingIds, meetingName : {""}]

NextFlag ==
    \/ Tick(Instants) /\ UNCHANGED otherVars
    \/ \E s \in Sockets, data \in StartData : FlagMeetingStarted(s, data)
    \/ \E s \in Sockets, data \in JoinData : FlagParticipantJoined(s, data)
    \/ \E s \in Sockets, data \in FlagNameData : FlagMeetingNameChanged(s, data)
    \/ \E s \in Sockets, data \in EndData : FlagMeetingEnded(s, data)
    \/ \E s \in Sockets, data \in LeftData : FlagParticipantLeft(s, data)
    \/ \E s \in Sockets : FlagHandleDisconnect(s)
    \/ \E op \in BagToSet(saving) : Saved(op)
    \/ \E s \in Sockets : ClearMeetingData(s)

SpecFlag == Init /\ [][NextFlag]_vars

-----------------------------------------------------------------------------
(* The participant's page (part_001, ParticipantMeetingTracker) driving the
   HTTP endpoints and the socket handlers of the Map-based revision.  A
   request reaches its endpoint in the step that sends it; its response is a
   step of its own.  The tracker posts its exit only after its start request
   was answered, so the endpoint always finds the record of the start. *)

MaxClientOps == 4

\* the socket.id the server gives the tracker's socket
TrackerSocket == "s1"

\* awaited fetches of one method, and the endpoint handlers still at work for
\* the tracker's sessionId: a response is there when the first outnumber the second
Awaiting(fn) == Len(SelectSeq(fetching, LAMBDA f : f.fn = fn))
AtWork(h) ==
    LET ops == {op \in BagToSet(pending) : op.h = h /\ op.key = tracker.sessionId}
        count[S \in SUBSET ops] ==
            IF S = {} THEN 0
            ELSE LET op == CHOOSE x \in S : TRUE
                 IN  CopiesIn(op, pending) + count[S \ {op}]
    IN  count[ops]
Responded(fn, h) == Awaiting(fn) > AtWork(h)

\* fetching without the oldest await of a method
Resumed(fn) ==
    LET i == CHOOSE k \in 1..Len(fetching) :
                 fetching[k].fn = fn /\ \A j \in 1..(k - 1) : fetching[j].fn # fn
    IN  SubSeq(fetching, 1, i - 1) \o SubSeq(fetching, i + 1, Len(fetching))

\* init(): startMeetingTracking() up to await fetch('/api/meeting-activity/start'),
\* then setupHeartbeat()
StartMeetingTracking ==
    /\ ~tracker.initialized /\ tracker.connected
    /\ tracker.currentUser # "" /\ tracker.meetingId # "" /\ ~tracker.isTracking
    /\ PostStart(tracker.currentUser,
                 [meetingName |-> tracker.meetingName, meetingId |-> tracker.meetingId,
                  isHost |-> FALSE, sessionId |-> tracker.sessionId])
    /\ tracker' = [tracker EXCEPT !.initialized = TRUE, !.heartbeatInterval = TRUE]
    /\ fetching' = Append(fetching, [fn |-> "startMeetingTracking", duration |-> NoDuration])
    /\ UNCHANGED <<wire, flagVars, sideVars>>

\* startMeetingTracking() after its fetch: response.ok
TrackingStarted ==
    /\ tracker.connected
    /\ Awaiting("startMeetingTracking") > 0
    /\ Responded("startMeetingTracking", "post-start")
    /\ tracker' = [tracker EXCEPT !.isTracking = TRUE]
    /\ wire' = Append(wire, [event |-> "participant-joined-meeting",
                             data |-> [meetingId |-> tracker.meetingId,
                                       meetingName |-> tracker.meetingName,
                                       userId |-> tracker.currentUser]])
    /\ fetching' = Resumed("startMeetingTracking")
    /\ UNCHANGED <<now, budget, mapVars, flagVars, sideVars>>

\* the callback of setupHeartbeat's setInterval
HeartbeatInterval ==
    /\ tracker.heartbeatInterval /\ tracker.connected /\ tracker.isTracking
    /\ Len(wire) < budget
    /\ wire' = Append(wire, [event |-> "meeting-heartbeat",
                             data |-> [meetingId |-> tracker.meetingId,
                                       userId |-> tracker.currentUser,
                                       meetingName |-> tracker.meetingName,
                                       timestamp |-> now]])
    /\ UNCHANGED <<now, budget, mapVars, flagVars, sideVars, tracker, fetching>>

\* the body handleMeetingExit posts to /api/meeting-activity
ExitBody ==
    [meetingName |-> tracker.meetingName, meetingId |-> tracker.meetingId,
     status |-> "completed",
     duration |-> AtLeastOne(MinutesRounded(now, tracker.joinTime)),
     startTime |-> tracker.joinTime, endTime |-> now, joinTime |-> tracker.joinTime,
     finalMeetingName |-> tracker.meetingName, sessionId |-> tracker.sessionId]

\* handleMeetingExit() up to await fetch('/api/meeting-activity')
HandleMeetingExit ==
    /\ tracker.connected /\ tracker.isTracking
    /\ PostActivity(tracker.currentUser, ExitBody)
    /\ fetching' = Append(fetching, [fn |-> "handleMeetingExit",
                                     duration |-> MinutesRounded(now, tracker.joinTime)])
    /\ tracker' = [tracker EXCEPT !.exits = @ + 1]
    /\ UNCHANGED <<wire, flagVars, sideVars>>

\* an exit that clears the interval and leaves isTracking as it is
StoppedIntervalOnly(t) == [t EXCEPT !.heartbeatInterval = FALSE]

\* this.isTracking = false; clearInterval(this.heartbeatInterval);
\* this.heartbeatInterval = null
Stopped(t) == [t EXCEPT !.isTracking = FALSE, !.heartbeatInterval = FALSE]

\* handleMeetingExit() after its fetch
MeetingExited ==
    /\ tracker.connected
    /\ Awaiting("handleMeetingExit") > 0
    /\ Responded("handleMeetingExit", "post-activity")
    /\ wire' = Append(wire, [event |-> "participant-left-meeting",
                             data |-> [meetingId |-> tracker.meetingId,
                                       meetingName |-> tracker.meetingName,
                                       userId |-> tracker.currentUser]])
    /\ tracker' = Stopped(tracker)
    /\ fetching' = Resumed("handleMeetingExit")
    /\ UNCHANGED <<now, budget, mapVars, flagVars, sideVars>>

\* the page is closed: beforeunload runs handleMeetingExit('tab_close'), whose
\* request is sent or dropped with the page, and the socket disconnects
TabClosed(sent) ==
    /\ tracker.connected
    /\ IF tracker.isTracking /\ sent
       THEN PostActivity(tracker.currentUser, ExitBody)
       ELSE UNCHANGED <<now, budget, mapVars>>
    /\ tracker' = [tracker EXCEPT !.connected = FALSE,
                                  !.exits = IF tracker.isTracking THEN @ + 1 ELSE @]
    /\ fetching' = <<>>
    /\ wire' = Append(wire, [event |-> "disconnect", data |-> [meetingName |-> ""]])
    /\ UNCHANGED <<flagVars, sideVars>>

\* the server handles the next event of the tracker's socket
Deliver ==
    /\ wire # <<>>
    /\ LET m == Head(wire)
       IN  CASE m.event = "participant-joined-meeting" ->
                    ParticipantJoined(TrackerSocket, m.data)
             [] m.event = "meeting-heartbeat" -> MeetingHeartbeat(TrackerSocket, m.data)
             [] m.event = "participant-left-meeting" ->
                    ParticipantLeft(TrackerSocket, m.data)
             [] m.event = "disconnect" -> HandleDisconnect(TrackerSocket)
    /\ wire' = Tail(wire)
    /\ UNCHANGED <<flagVars, sideVars, tracker, fetching>>

-----------------------------------------------------------------------------
(* SpecClient: one run of the participant's page against the server *)

ClientInstants == {0, 1, 3}

NextClient ==
    \/ Tick(ClientInstants) /\ UNCHANGED otherVars
    \/ StartMeetingTracking
    \/ TrackingStarted
    \/ HeartbeatInterval
    \/ HandleMeetingExit
    \/ MeetingExited
    \/ \E sent \in BOOLEAN : TabClosed(sent)
    \/ Deliver
    \/ \E op \in BagToSet(pending) : StoreSave(op) /\ UNCHANGED otherVars
    \/ \E op \in BagToSet(pending) : StoreUpdate(op) /\ UNCHANGED otherVars
    \/ \E op \in BagToSet(pending) : Resume(op) /\ UNCHANGED otherVars
    \/ \E op \in BagToSet(pending) : FindActivity(op) /\ UNCHANGED otherVars
    \/ \E op \in BagToSet(pending) : SaveLoaded(op) /\ UNCHANGED otherVars

InitClient == InitWith(MaxClientOps)

SpecClient == InitClient /\ [][NextClient]_vars

-----------------------------------------------------------------------------
(* Properties of the Map-based revision, checked under Spec *)

InProgressOf(k) ==
    {i \in 1..Len(activities) :
        activities[i].sessionId = k /\ activities[i].status = "in-progress"}

CompletedOf(k) ==
    {i \in 1..Len(activities) :
        activities[i].sessionId = k /\ activities[i].status = "completed"}

InFlight(k) == {op \in BagToSet(pending) : op.key = k}

\* C1: once the termination triggers delivered for the first session of a socket
\* have all run to their end, exactly one activity record of that socket is
\* 'completed'.
ExactlyOnceFinalize ==
    \A s \in Sockets :
        (epoch[s] = 1 /\ finalized[s] /\ InFlight(s) = {})
            => Cardinality(CompletedOf(s)) = 1

\* the delivery of a termination signal to socket s
TriggerDelivery(s) ==
    \/ \E data \in EndData : MeetingEnded(s, data)
    \/ \E data \in EndData : ParticipantLeft(s, data)
    \/ HandleDisconnect(s)

\* C4: a termination signal delivered for a socket whose session a termination
\* handler has already finalized changes neither the registry nor any activity
\* record, starts no store call, emits nothing and raises no error.
IdempotentRedelivery ==
    [][\A s \in Sockets :
          (finalized[s] /\ TriggerDelivery(s))
              => UNCHANGED <<activeMeetingSessions, activities, pending, emitted, errors>>
      ]_vars

\* C4 witness: a trigger was delivered after the finalize, at a later time than
\* the endTime the record keeps.
RedeliveredAfterFinalize ==
    \E s \in Sockets :
        /\ replays[s] > 0
        /\ \E i \in CompletedOf(s) : activities[i].endTime < now

\* C6: for each session key at most one activity record is 'in-progress'.
InProgressUnique == \A k \in Keys : Cardinality(InProgressOf(k)) <= 1

\* C7: every 'completed' activity record has a duration of at least 1.
MinimumDuration ==
    \A i \in 1..Len(activities) :
        activities[i].status = "completed" => activities[i].duration >= 1

-----------------------------------------------------------------------------
(* Properties of the name signals, checked under SpecNames *)

\* C8: the name resolved for a live session is the name carried by the name
\* signal (meeting-name-changed or meeting-heartbeat) with the greatest own
\* timestamp among those processed, whatever their order of arrival.
MonotonicNameByTimestamp ==
    \A s \in Sockets :
        (activeMeetingSessions[s] # NoSession /\ newest[s].name # "")
            => ResolvedName(activeMeetingSessions[s]) = newest[s].name

\* the delivery of a termination signal that carries no name
NamelessDelivery(s) ==
    \/ MeetingEnded(s, [meetingName |-> ""])
    \/ ParticipantLeft(s, [meetingName |-> ""])
    \/ HandleDisconnect(s)

\* the store calls a step has issued
Issued(before, after) ==
    {op \in BagToSet(after) : CopiesIn(op, after) > CopiesIn(op, before)}

\* C9: a termination signal without a name writes, as finalMeetingName, the name
\* of the most recently processed name signal of the session (the start name when
\* there was none).
LatestNameAtFinalize ==
    [][\A s \in Sockets :
          (activeMeetingSessions[s] # NoSession /\ NamelessDelivery(s))
              => \A op \in Issued(pending, pending') :
                    op.set.finalMeetingName = lastNamed[s]
      ]_vars

-----------------------------------------------------------------------------
(* Properties of the endpoints and sweeps, checked under SpecStore *)

\* C3: once a record has status 'completed', no step of any component changes
\* its status, endTime, duration or finalMeetingName
CompletedImmutable ==
    [][\A i \in 1..Len(activities) :
         activities[i].status = "completed" =>
            /\ activities'[i].status = activities[i].status
            /\ activities'[i].endTime = activities[i].endTime
            /\ activities'[i].duration = activities[i].duration
            /\ activities'[i].finalMeetingName = activities[i].finalMeetingName]_vars

\* C10: a socket session that was started once has at most one
\* 'meeting-completed' notification emitted for it, whatever triggers and
\* sweeps run and however they interleave
SingleCompletedNotification ==
    \A s \in Sockets : epoch[s] <= 1 => emitted[s]["completed"] <= 1

-----------------------------------------------------------------------------
(* Properties of the single-flag revision, checked under SpecFlag *)

\* C2: the test of activitySaved and its setting act as one step, so
\* meeting-ended and the disconnect handler never both create a record for
\* the same session of a socket
AtomicFinalizeFlag ==
    \A i, j \in 1..Len(origin) :
        (/\ origin[i].socket = origin[j].socket
         /\ origin[i].session = origin[j].session
         /\ origin[i].h = "meeting-ended")
        => origin[j].h # "disconnect"

-----------------------------------------------------------------------------
(* Properties of one run of the participant's page, checked under SpecClient *)

\* the participation has ended and every request, event and store call it
\* caused has been handled
ParticipationEnded ==
    /\ tracker.exits > 0 /\ ~(tracker.connected /\ tracker.isTracking)
    /\ fetching = <<>> /\ wire = <<>> /\ pending = EmptyBag

\* C5: once a participation run by the tracker has ended, exactly one
\* MeetingActivity record exists for it
OneRecordPerParticipation == ParticipationEnded => Len(activities) = 1

-----------------------------------------------------------------------------
(* Further properties of the endpoints and sweeps, checked under SpecStore *)

\* C11: a sweep that loaded a record while it was in-progress does not
\* overwrite it when another finalizer completed it before the sweep's save:
\* endTime and duration stay as that finalizer wrote them
SweepYieldsToFinalizer ==
    [][\A op \in BagToSet(pending) :
         (/\ op.stage = "sweep-save"
          /\ activities[Head(op.docs).id].status = "completed"
          /\ SweepSave(op))
         => /\ activities'[Head(op.docs).id].endTime = activities[Head(op.docs).id].endTime
            /\ activities'[Head(op.docs).id].duration = activities[Head(op.docs).id].duration]_vars

-----------------------------------------------------------------------------
(* SpecTimed: the sweeps run by their interval timers, in real time.  The
   clock advances by half minutes; a timer that is due fires before the clock
   moves on, and a store call returns within the half minute it was issued in. *)

MaxTime == 15
MaxTimedOps == 2

\* setInterval(cleanupAbandonedSessions, 2 * 60 * 1000)
CleanupInterval == 4
\* setInterval(enhancedCleanup, 5 * 60 * 1000)
EnhancedInterval == 10

\* half a minute passes
TimedTick ==
    /\ now < MaxTime
    /\ pending = EmptyBag
    /\ now < cleanupRanAt + CleanupInterval
    /\ now < enhancedRanAt + EnhancedInterval
    /\ now' = now + 1
    /\ UNCHANGED <<budget, mapVars, flagVars, trackerVars, sideVars>>

\* the 2-minute timer fires
CleanupTimer ==
    /\ now = cleanupRanAt + CleanupInterval
    /\ cleanupRanAt' = now
    /\ IssueFind("cleanup", SoftThreshold)
    /\ UNCHANGED <<budget, flagVars, trackerVars, enhancedRanAt, bookingVars>>

\* the 5-minute timer fires
EnhancedTimer ==
    /\ now = enhancedRanAt + EnhancedInterval
    /\ enhancedRanAt' = now
    /\ IssueFind("enhanced", HardThreshold)
    /\ UNCHANGED <<budget, flagVars, trackerVars, cleanupRanAt, bookingVars>>

TouchData ==
    [meetingId : MeetingIds, userId : UserIds, meetingName : {""}, timestamp : {now}]

NextTimed ==
    \/ TimedTick
    \/ CleanupTimer
    \/ EnhancedTimer
    \/ \E s \in Sockets, data \in JoinData : ParticipantJoined(s, data) /\ UNCHANGED otherVars
    \/ \E s \in Sockets, data \in TouchData : MeetingHeartbeat(s, data) /\ UNCHANGED otherVars
    \/ \E s \in Sockets : HandleDisconnect(s) /\ UNCHANGED otherVars
    \/ \E u \in UserIds, body \in PostStartData : PostStart(u, body) /\ UNCHANGED otherVars
    \/ \E op \in BagToSet(pending) : StoreSave(op) /\ UNCHANGED otherVars
    \/ \E op \in BagToSet(pending) : StoreUpdate(op) /\ UNCHANGED otherVars
    \/ \E op \in BagToSet(pending) : Resume(op) /\ UNCHANGED otherVars
    \/ \E op \in BagToSet(pending) : SweepFind(op) /\ UNCHANGED otherVars
    \/ \E op \in BagToSet(pending) : SweepSave(op) /\ UNCHANGED otherVars

InitTimed == InitWith(MaxTimedOps)

SpecTimed == InitTimed /\ [][NextTimed]_vars

-----------------------------------------------------------------------------
(* Properties of the timed sweeps, checked under SpecTimed *)

\* no record is in-progress later than the soft threshold plus one interval of
\* the 2-minute sweep after its lastSeen
CompletedWithinInterval ==
    \A i \in 1..Len(activities) :
        activities[i].status = "in-progress"
            => now <= activities[i].lastSeen + SoftThreshold + CleanupInterval

\* what the 2-minute sweep writes to a record no signal has touched since the
\* sweep loaded it: endTime is its lastSeen, duration runs from joinTime to
\* that lastSeen
EndsAtLastSeen ==
    \A op \in BagToSet(pending) :
        (/\ op.stage = "sweep-save" /\ op.h = "cleanup"
         /\ activities[Head(op.docs).id] = Head(op.docs).loaded
         /\ SweepSave(op))
        => LET before == activities[Head(op.docs).id]
               after == activities'[Head(op.docs).id]
           IN  /\ after.status = "completed"
               /\ after.endTime = before.lastSeen
               /\ after.duration = MinutesRounded(before.lastSeen, before.joinTime)

\* C12: a session without signals for longer than the soft threshold is
\* completed by the periodic sweep within one sweep interval of crossing the
\* threshold, with endTime = its last lastSeen and the duration computed from
\* joinTime to that lastSeen, not to the time of the sweep
StalenessBound == []CompletedWithinInterval /\ [][EndsAtLastSeen]_vars

\* a socket session, last heard of after its join, that the sweep completed in
\* time while its registry entry is still there
SweptAtLastSeen ==
    \E i \in 1..Len(activities) :
        /\ activities[i].status = "completed"
        /\ activities[i].sessionId \in Sockets
        /\ activeMeetingSessions[activities[i].sessionId] # NoSession
        /\ activities[i].endTime = activities[i].lastSeen
        /\ activities[i].endTime > activities[i].joinTime
        /\ now > activities[i].lastSeen + SoftThreshold

-----------------------------------------------------------------------------
(* Registry and records, checked under SpecStore *)

\* C13: a socket's session is in activeMeetingSessions exactly as long as it
\* is not finalized: with no handler or sweep at work, the socket has a
\* registry entry if and only if it has an in-progress record
RegistryMatchesRecords ==
    pending = EmptyBag =>
        \A s \in Sockets :
            activeMeetingSessions[s] # NoSession <=> InProgressOf(s) # {}

-----------------------------------------------------------------------------
(* Signals the registry should turn away, checked under Spec *)

StartDelivery(s) ==
    \/ \E data \in StartData : MeetingStarted(s, data)
    \/ \E data \in JoinData : ParticipantJoined(s, data)

\* C14: a start signal for a socket that already has a session in the registry
\* does not replace it: joinTime, startTime, isHost and name of the session
\* stay as they are and no second in-progress record is created
AlreadyActiveKept ==
    [][\A s \in Sockets :
         (activeMeetingSessions[s] # NoSession /\ StartDelivery(s))
         => /\ activeMeetingSessions'[s].joinTime = activeMeetingSessions[s].joinTime
            /\ activeMeetingSessions'[s].startTime = activeMeetingSessions[s].startTime
            /\ activeMeetingSessions'[s].isHost = activeMeetingSessions[s].isHost
            /\ activeMeetingSessions'[s].meetingName = activeMeetingSessions[s].meetingName
            /\ pending' = pending]_vars

-----------------------------------------------------------------------------
(* Signals of a socket without a session, checked under SpecFlag *)

\* C15: a termination or name-change signal from a socket that has no session
\* is ignored: as long as no session was ever started on a socket, no record
\* is saved or being saved for it and no notification is emitted for it
UnknownSocketIgnored ==
    \A s \in Sockets :
        begun[s] = 0 =>
            /\ \A i \in 1..Len(origin) : origin[i].socket # s
            /\ \A op \in BagToSet(saving) : op.socket # s
            /\ notified[s] = 0

-----------------------------------------------------------------------------
(* SpecFaults: store calls that fail.  Every handler wraps its body in
   try/catch; a rejected await lands in the catch, which only logs. *)

MaxFaultOps == 3

\* a handler that gives the session up when its write fails
CaughtDroppingSession(sessions, op) ==
    IF op.key \in Sockets THEN DeleteSession(sessions, op.key) ELSE sessions

\* catch (error) { console.error(...) } of the part_002 handlers: the Map is
\* left as it is
Caught(sessions, op) == sessions

\* await MeetingActivity.updateOne of a termination handler of the Map-based
\* revision rejects
StoreThrows(op) ==
    /\ op.stage = "update" /\ op.h \in TriggerHandlers
    /\ pending' = Remove(pending, op)
    /\ errors' = errors + 1
    /\ activeMeetingSessions' = Caught(activeMeetingSessions, op)
    /\ UNCHANGED <<now, budget, activities, emitted, epoch, finalized, replays,
                   newest, lastNamed>>

\* await activity.save() of meeting-ended or handleDisconnect of the
\* single-flag revision rejects
SaveThrows(op) ==
    /\ saving' = Remove(saving, op)
    /\ caught' = caught + 1
    /\ UNCHANGED <<now, budget, mapVars, trackerVars, sideVars, meetingData, connected,
                   savedActivities, timeouts, notified, begun, origin>>

FaultInstants == {0, 1}

NextFaults ==
    \/ Tick(FaultInstants) /\ UNCHANGED otherVars
    \/ \E s \in Sockets, data \in JoinData : ParticipantJoined(s, data) /\ UNCHANGED otherVars
    \/ \E s \in Sockets : MeetingEnded(s, [meetingName |-> ""]) /\ UNCHANGED otherVars
    \/ \E s \in Sockets : HandleDisconnect(s) /\ UNCHANGED otherVars
    \/ \E op \in BagToSet(pending) : StoreSave(op) /\ UNCHANGED otherVars
    \/ \E op \in BagToSet(pending) : StoreUpdate(op) /\ UNCHANGED otherVars
    \/ \E op \in BagToSet(pending) : Resume(op) /\ UNCHANGED otherVars
    \/ \E op \in BagToSet(pending) : StoreThrows(op) /\ UNCHANGED otherVars
    \/ \E s \in Sockets, data \in JoinData : FlagParticipantJoined(s, data)
    \/ \E s \in Sockets : FlagMeetingEnded(s, [meetingName |-> ""])
    \/ \E s \in Sockets : FlagHandleDisconnect(s)
    \/ \E op \in BagToSet(saving) : Saved(op)
    \/ \E op \in BagToSet(saving) : SaveThrows(op)
    \/ \E s \in Sockets : ClearMeetingData(s)

InitFaults == InitWith(MaxFaultOps)

SpecFaults == InitFaults /\ [][NextFaults]_vars

-----------------------------------------------------------------------------
(* Properties of failing writes, checked under SpecFaults *)

\* C16: when the write of a termination handler fails, the session stays in
\* the registry (in the single-flag revision activitySaved stays false), no
\* record changes and no completion notification is emitted, so that a later
\* trigger or sweep finds the session as the failed handler found it
FailedWriteKeepsSession ==
    [][/\ \A op \in BagToSet(pending) :
            StoreThrows(op) =>
                /\ activeMeetingSessions' = activeMeetingSessions
                /\ activities' = activities
                /\ emitted' = emitted
       /\ \A op \in BagToSet(saving) :
            SaveThrows(op) =>
                /\ meetingData' = meetingData
                /\ savedActivities' = savedActivities
                /\ notified' = notified]_vars

\* a termination handler's write failed, and another trigger completed the
\* session's record: one completed record, one notification, entry removed
FinalizedAfterFailure ==
    /\ errors > 0
    /\ \E s \in Sockets :
        /\ finalized[s] /\ activeMeetingSessions[s] = NoSession
        /\ Cardinality(CompletedOf(s)) = 1
        /\ emitted[s]["completed"] = 1

-----------------------------------------------------------------------------
(* SpecTimedFair: SpecTimed with time passing, the interval timers firing and
   the store answering *)

\* some awaited store call of the server returns
StoreReturns ==
    \E op \in BagToSet(pending) :
        /\ \/ StoreSave(op) \/ StoreUpdate(op) \/ Resume(op)
           \/ SweepFind(op) \/ SweepSave(op)
        /\ UNCHANGED otherVars

SpecTimedFair ==
    /\ SpecTimed
    /\ WF_vars(TimedTick)
    /\ WF_vars(CleanupTimer)
    /\ WF_vars(EnhancedTimer)
    /\ WF_vars(StoreReturns)

\* record i is in-progress, nothing is at work on the store, no signal will
\* come any more, and the clock can still run past the record's threshold
\* and one sweep interval
LeftBehind(i) ==
    /\ i <= Len(activities)
    /\ activities[i].status = "in-progress"
    /\ budget = 0 /\ pending = EmptyBag
    /\ activities[i].lastSeen + SoftThreshold + CleanupInterval <= MaxTime

SweptUp(i) ==
    /\ i <= Len(activities)
    /\ activities[i].status = "completed"
    /\ activities[i].endTime = activities[i].lastSeen

\* C17: every in-progress record whose session stops sending signals, also one
\* that has no registry entry, is eventually completed by a sweep with
\* endTime = its lastSeen: no record stays in-progress forever
BoundedRetention == \A i \in 1..(MaxTimedOps + 1) : LeftBehind(i) ~> SweptUp(i)

\* a record made by POST /api/meeting-activity/start, which has no registry
\* entry, was completed by a sweep at its lastSeen after the signals stopped
BackstopCompleted ==
    /\ budget = 0
    /\ \E i \in 1..Len(activities) :
        /\ activities[i].sessionId \in HttpSessionIds
        /\ SweptUp(i)
        /\ now > activities[i].lastSeen + SoftThreshold

-----------------------------------------------------------------------------
(* SpecHost: a host's session with renames, ended by meeting-ended *)

HostInstants == {0, 1, 5}
HostData == [userId : UserIds, meetingId : MeetingIds, meetingName : {"A"}, isHost : {TRUE}]
RenameData == [meetingId : MeetingIds, newName : Names, timestamp : {now}]

NextHost ==
    \/ Tick(HostInstants) /\ UNCHANGED otherVars
    \/ \E s \in Sockets, data \in HostData : MeetingStarted(s, data) /\ UNCHANGED otherVars
    \/ \E s \in Sockets, data \in RenameData : MeetingNameChanged(s, data) /\ UNCHANGED otherVars
    \/ \E s \in Sockets : MeetingEnded(s, [meetingName |-> ""]) /\ UNCHANGED otherVars
    \/ \E op \in BagToSet(pending) : StoreSave(op) /\ UNCHANGED otherVars
    \/ \E op \in BagToSet(pending) : StoreUpdate(op) /\ UNCHANGED otherVars
    \/ \E op \in BagToSet(pending) : Resume(op) /\ UNCHANGED otherVars

SpecHost == Init /\ [][NextHost]_vars

\* what meeting-ended without a name asks the store to write for a live
\* session: the elapsed time from the session's start in minutes, halves
\* rounded up, and the name of the last rename
EndedWritesRounded ==
    \A s \in Sockets :
        (activeMeetingSessions[s] # NoSession /\ MeetingEnded(s, [meetingName |-> ""]))
        => \A op \in Issued(pending, pending') :
              LET elapsed == now - activeMeetingSessions[s].startTime
              IN  /\ op.set.status = "completed"
                  /\ 2 * op.set.duration - 1 <= elapsed
                  /\ elapsed <= 2 * op.set.duration
                  /\ op.set.finalMeetingName = lastNamed[s]

\* what the store makes of it: the record it matches takes these values and
\* keeps isHost
EndedCompletesRecord ==
    \A op \in BagToSet(pending) :
        (/\ op.h = "meeting-ended" /\ op.stage = "update"
         /\ FirstMatch(activities, op.filter) # 0
         /\ StoreUpdate(op))
        => LET i == FirstMatch(activities, op.filter)
           IN  /\ activities'[i].status = "completed"
               /\ activities'[i].duration = op.set.duration
               /\ activities'[i].finalMeetingName = op.set.finalMeetingName
               /\ activities'[i].isHost = activities[i].isHost

\* C18: a host session ended by meeting-ended without a name gets
\* duration = round(elapsed / 1 minute) from session start to the trigger
\* (2:30 gives 3), finalMeetingName = the last rename of the session, and
\* keeps isHost = true
HostRecordOnEnd ==
    [][EndedWritesRounded /\ EndedCompletesRecord]_vars /\
    [](\A i \in 1..Len(activities) : activities[i].isHost)

\* started at 0:00 as 'A', renamed to 'B', ended at 2:30 without a name:
\* duration 3, finalMeetingName 'B', isHost true
HostExample ==
    \E i \in 1..Len(activities) :
        /\ activities[i].status = "completed"
        /\ activities[i].startTime = 0 /\ activities[i].endTime = 5
        /\ activities[i].meetingName = "A"
        /\ activities[i].duration = 3
        /\ activities[i].finalMeetingName = "B"
        /\ activities[i].isHost

-----------------------------------------------------------------------------
(* SpecKeys: several sessions of one user in one meeting, over the socket
   and over HTTP with and without a sessionId *)

KeyInstants == {0, 1}

KeyStartData ==
    [meetingName : {"A"}, meetingId : MeetingIds, isHost : {FALSE}, sessionId : {"", "p1"}]

\* since: the time at which the session the request belongs to was started;
\* the endpoints do not read it
KeyNameData ==
    [meetingId : MeetingIds, newName : {"B"}, sessionId : {"", "p1"}, since : KeyInstants]
KeyActivityData ==
    [meetingName : {"B"}, meetingId : MeetingIds, status : {"completed"},
     duration : {NoDuration}, startTime : {NoTime}, endTime : {NoTime},
     joinTime : {NoTime}, finalMeetingName : {"B"}, sessionId : {"", "p1"},
     since : KeyInstants]

\* the session a request belongs to was started over POST /start and has its record
OwnRecord(userId, body) ==
    \E i \in 1..Len(activities) :
        /\ activities[i].userId = userId
        /\ activities[i].meetingId = body.meetingId
        /\ activities[i].sessionId = OrElse(body.sessionId, "unknown")
        /\ activities[i].startTime = body.since

NextKeys ==
    \/ Tick(KeyInstants) /\ UNCHANGED otherVars
    \/ \E s \in Sockets, data \in JoinData : ParticipantJoined(s, data) /\ UNCHANGED otherVars
    \/ \E s \in Sockets, data \in RenameData : MeetingNameChanged(s, data)
          /\ UNCHANGED otherVars
    \/ \E s \in Sockets : HandleDisconnect(s) /\ UNCHANGED otherVars
    \/ \E u \in UserIds, body \in KeyStartData : PostStart(u, body) /\ UNCHANGED otherVars
    \/ \E u \in UserIds, body \in KeyNameData :
          OwnRecord(u, body) /\ PostUpdateName(u, body) /\ UNCHANGED otherVars
    \/ \E u \in UserIds, body \in KeyActivityData :
          OwnRecord(u, body) /\ PostActivity(u, body) /\ UNCHANGED otherVars
    \/ \E op \in BagToSet(pending) : StoreSave(op) /\ UNCHANGED otherVars
    \/ \E op \in BagToSet(pending) : StoreUpdate(op) /\ UNCHANGED otherVars
    \/ \E op \in BagToSet(pending) : Resume(op) /\ UNCHANGED otherVars
    \/ \E op \in BagToSet(pending) : FindActivity(op) /\ UNCHANGED otherVars
    \/ \E op \in BagToSet(pending) : FindForName(op) /\ UNCHANGED otherVars
    \/ \E op \in BagToSet(pending) : SaveLoaded(op) /\ UNCHANGED otherVars

SpecKeys == Init /\ [][NextKeys]_vars

\* the records a step changed
Changed == {i \in 1..Len(activities) : activities'[i] # activities[i]}

\* C19: an operation for one session changes neither the registry entry nor
\* the record of another session of the same user and meeting: a socket
\* handler's store call changes only records of its own socket, an HTTP
\* request changes no registry entry and only the record of the session it
\* belongs to, also when it carries no sessionId
OtherSessionsUntouched ==
    [][\A op \in BagToSet(pending) :
          /\ (op.key \in Sockets /\ StoreUpdate(op))
             => \A i \in Changed : activities[i].sessionId = op.key
          /\ (op.h \in {"post-activity", "post-update-name"} /\ SaveLoaded(op))
             => /\ activeMeetingSessions' = activeMeetingSessions
                /\ \A i \in Changed :
                      /\ activities[i].sessionId = OrElse(op.body.sessionId, "unknown")
                      /\ op.body.sessionId = ""
                         => activities[i].startTime = op.body.since]_vars

-----------------------------------------------------------------------------
(* SpecIngest: start and rename signals of both revisions, with and without
   their required fields *)

IngestInstants == {0, 1}

IngestStartData ==
    [userId : UserIds \cup {""}, meetingId : MeetingIds \cup {""},
     meetingName : {"A", ""}, isHost : {TRUE}]
IngestNameData ==
    [meetingId : MeetingIds \cup {""}, newName : {"B", ""}, timestamp : {now}]

NextIngest ==
    \/ Tick(IngestInstants) /\ UNCHANGED otherVars
    \/ \E s \in Sockets, data \in IngestStartData : MeetingStarted(s, data)
          /\ UNCHANGED otherVars
    \/ \E s \in Sockets, data \in IngestStartData : ParticipantJoined(s, data)
          /\ UNCHANGED otherVars
    \/ \E s \in Sockets, data \in IngestNameData : MeetingNameChanged(s, data)
          /\ UNCHANGED otherVars
    \/ \E op \in BagToSet(pending) : StoreSave(op) /\ UNCHANGED otherVars
    \/ \E op \in BagToSet(pending) : StoreUpdate(op) /\ UNCHANGED otherVars
    \/ \E s \in Sockets, data \in IngestStartData : FlagMeetingStarted(s, data)
    \/ \E s \in Sockets, data \in IngestStartData : FlagParticipantJoined(s, data)
    \/ \E s \in Sockets, data \in IngestNameData : FlagMeetingNameChanged(s, data)

SpecIngest == Init /\ [][NextIngest]_vars

StartFieldMissing(data) == data.userId = "" \/ data.meetingId = "" \/ data.meetingName = ""
NameFieldMissing(data) == data.meetingId = "" \/ data.newName = ""

\* C20: a start signal without userId, meetingId or meetingName and a
\* meeting-name-changed without meetingId or newName leave the registry
\* (activeMeetingSessions, socket.meetingData), the activity records and
\* the calls on the store as they were
MalformedChangesNothing ==
    [][\A s \in Sockets :
          /\ \A data \in IngestStartData :
                (/\ StartFieldMissing(data)
                 /\ \/ MeetingStarted(s, data) /\ UNCHANGED otherVars
                    \/ ParticipantJoined(s, data) /\ UNCHANGED otherVars
                    \/ FlagMeetingStarted(s, data)
                    \/ FlagParticipantJoined(s, data))
                => UNCHANGED <<activeMeetingSessions, meetingData, activities,
                               savedActivities, pending, saving>>
          /\ \A data \in IngestNameData :
                (/\ NameFieldMissing(data)
                 /\ \/ MeetingNameChanged(s, data) /\ UNCHANGED otherVars
                    \/ FlagMeetingNameChanged(s, data))
                => UNCHANGED <<activeMeetingSessions, meetingData, activities,
                               savedActivities, pending, saving>>]_vars

-----------------------------------------------------------------------------
(* SpecPermanent: name signals around the completion of a record *)

PermanentInstants == {0, 1}

NamedTouchData ==
    [meetingId : MeetingIds, userId : UserIds, meetingName : {"B"}, timestamp : {now}]
ExitData ==
    [meetingName : {"A"}, meetingId : MeetingIds, status : {"completed"},
     duration : {NoDuration}, startTime : {NoTime}, endTime : {NoTime},
     joinTime : {NoTime}, finalMeetingName : {""}, sessionId : {"p1"}]

NextPermanent ==
    \/ Tick(PermanentInstants) /\ UNCHANGED otherVars
    \/ \E s \in Sockets, data \in JoinData : ParticipantJoined(s, data) /\ UNCHANGED otherVars
    \/ \E s \in Sockets, data \in RenameData : MeetingNameChanged(s, data)
          /\ UNCHANGED otherVars
    \/ \E s \in Sockets, data \in NamedTouchData : MeetingHeartbeat(s, data)
          /\ UNCHANGED otherVars
    \/ \E s \in Sockets : HandleDisconnect(s) /\ UNCHANGED otherVars
    \/ \E u \in UserIds, body \in PostStartData : PostStart(u, body) /\ UNCHANGED otherVars
    \/ \E u \in UserIds, body \in PostNameData : PostUpdateName(u, body)
          /\ UNCHANGED otherVars
    \/ \E u \in UserIds, body \in ExitData : PostActivity(u, body) /\ UNCHANGED otherVars
    \/ \E op \in BagToSet(pending) : StoreSave(op) /\ UNCHANGED otherVars
    \/ \E op \in BagToSet(pending) : StoreUpdate(op) /\ UNCHANGED otherVars
    \/ \E op \in BagToSet(pending) : Resume(op) /\ UNCHANGED otherVars
    \/ \E op \in BagToSet(pending) : FindActivity(op) /\ UNCHANGED otherVars
    \/ \E op \in BagToSet(pending) : FindForName(op) /\ UNCHANGED otherVars
    \/ \E op \in BagToSet(pending) : SaveLoaded(op) /\ UNCHANGED otherVars
    \/ \E op \in BagToSet(pending) : SaveNewActivity(op) /\ UNCHANGED otherVars

SpecPermanent == Init /\ [][NextPermanent]_vars

\* the store call of a name signal is applied
NameWrite(op) ==
    \/ op.h \in {"meeting-name-changed", "meeting-heartbeat"} /\ StoreUpdate(op)
    \/ op.h = "post-update-name" /\ SaveLoaded(op)

\* C21: the write of a meeting-name-changed, a meeting-heartbeat or a POST
\* /api/meeting-activity/update-name that reaches the store once the record is
\* 'completed' leaves that record's finalMeetingName as it is
FinalNamePermanent ==
    [][\A op \in BagToSet(pending) :
          NameWrite(op) =>
             \A i \in 1..Len(activities) :
                activities[i].status = "completed" =>
                   activities'[i].finalMeetingName = activities[i].finalMeetingName]_vars

-----------------------------------------------------------------------------
(* SpecNotify: the termination handlers of the Map-based revision when
   io.to(...).emit throws *)

\* the statements of a termination handler that ran before its emit:
\* meeting-ended and participant-left-meeting delete the Map entry first,
\* handleDisconnect emits first and deletes afterwards
BeforeEmit(sessions, op) ==
    IF op.h = "disconnect" THEN sessions ELSE DeleteSession(sessions, op.key)

\* the code after the await of a termination handler when the emit throws:
\* control passes to the catch, which logs
EmitThrows(op) ==
    /\ op.stage = "resume" /\ EmitsCompleted(op)
    /\ activeMeetingSessions' = BeforeEmit(activeMeetingSessions, op)
    /\ errors' = errors + 1
    /\ pending' = Remove(pending, op)
    /\ finalized' = [finalized EXCEPT ![op.key] = @ \/ op.h # "disconnect"]
    /\ UNCHANGED <<now, activities, emitted, budget, epoch, replays, newest, lastNamed>>

NotifyInstants == {0, 1}

NextNotify ==
    \/ Tick(NotifyInstants) /\ UNCHANGED otherVars
    \/ \E s \in Sockets, data \in JoinData : ParticipantJoined(s, data) /\ UNCHANGED otherVars
    \/ \E s \in Sockets : MeetingEnded(s, [meetingName |-> ""]) /\ UNCHANGED otherVars
    \/ \E s \in Sockets : ParticipantLeft(s, [meetingName |-> ""]) /\ UNCHANGED otherVars
    \/ \E s \in Sockets : HandleDisconnect(s) /\ UNCHANGED otherVars
    \/ \E op \in BagToSet(pending) : StoreSave(op) /\ UNCHANGED otherVars
    \/ \E op \in BagToSet(pending) : StoreUpdate(op) /\ UNCHANGED otherVars
    \/ \E op \in BagToSet(pending) : Resume(op) /\ UNCHANGED otherVars
    \/ \E op \in BagToSet(pending) : EmitThrows(op) /\ UNCHANGED otherVars

SpecNotify == Init /\ [][NextNotify]_vars

\* C22: when the emit fails after a termination handler's write completed
\* the record, the record stays as written and the session is removed from
\* the registry, in meeting-ended, participant-left-meeting and disconnect
EmitFailureNotFatal ==
    [][\A op \in BagToSet(pending) :
          (op.stage = "resume" /\ op.modifiedCount > 0 /\ EmitThrows(op))
          => /\ activities' = activities
             /\ \E i \in 1..Len(activities) :
                   /\ activities[i].sessionId = op.key
                   /\ activities[i].status = "completed"
                   /\ activities[i].endTime = op.set.endTime
                   /\ activities[i].duration = op.set.duration
             /\ activeMeetingSessions'[op.key] = NoSession]_vars

-----------------------------------------------------------------------------
(* SpecFlagSeq: the single-flag revision with its signals handled one after
   the other: a signal is delivered when no handler is waiting for a save *)

SeqInstants == {0, 1}

Idle == saving = EmptyBag

NextFlagSeq ==
    \/ Tick(SeqInstants) /\ UNCHANGED otherVars
    \/ \E s \in Sockets, data \in JoinData : Idle /\ FlagParticipantJoined(s, data)
    \/ \E s \in Sockets : Idle /\ FlagMeetingEnded(s, [meetingName |-> ""])
    \/ \E s \in Sockets, data \in LeftData : Idle /\ FlagParticipantLeft(s, data)
    \/ \E s \in Sockets : Idle /\ FlagHandleDisconnect(s)
    \/ \E op \in BagToSet(saving) : Saved(op)
    \/ \E s \in Sockets : ClearMeetingData(s)

SpecFlagSeq == Init /\ [][NextFlagSeq]_vars

\* the records saved for socket s
SavedFor(s) == {i \in 1..Len(origin) : origin[i].socket = s}

\* at most one record for a socket on which one session was started
OneRecordPerFlagSession ==
    \A s \in Sockets : begun[s] = 1 => Cardinality(SavedFor(s)) <= 1

\* activitySaved, once true, stays true for as long as the session data is kept
FlagStaysSet ==
    \A s \in Sockets :
        (/\ meetingData[s] # NoSession /\ meetingData'[s] # NoSession
         /\ begun'[s] = begun[s]
         /\ meetingData[s].activitySaved)
        => meetingData'[s].activitySaved

\* C23: in the single-flag revision, meeting-ended, participant-left-meeting
\* and disconnect handled one after the other in any order after one
\* session start create at most one record, and activitySaved goes from
\* false to true at most once
GuardedByFlag == []OneRecordPerFlagSession /\ [][FlagStaysSet]_vars

-----------------------------------------------------------------------------
\* C24: a termination handler emits 'meeting-completed' only when its own
\* updateOne has moved the session's record to 'completed', also when the
\* trigger is handled while the start handler's save is still in flight
WriteBeforeNotify ==
    [][\A op \in BagToSet(pending) :
          (/\ op.stage = "resume" /\ Resume(op)
           /\ emitted'[op.key]["completed"] > emitted[op.key]["completed"])
          => /\ op.modifiedCount > 0
             /\ \E i \in 1..Len(activities) :
                   /\ activities[i].sessionId = op.key
                   /\ activities[i].status = "completed"]_vars

-----------------------------------------------------------------------------
(* SpecLive: one tracked participant who stays in the meeting.  The tracker
   posts /api/meeting-activity/start with its own sessionId, emits
   participant-joined-meeting on the response, and then emits
   meeting-heartbeat every 30 seconds; the two sweeps run on their timers *)

MaxLiveOps == 14

LiveStartData ==
    [meetingName : {"A"}, meetingId : MeetingIds, isHost : {FALSE}, sessionId : {"p1"}]
LiveJoinData == [userId : UserIds, meetingId : MeetingIds, meetingName : {"A"}]
LiveTouchData ==
    [meetingId : MeetingIds, userId : UserIds, meetingName : {"A"}, timestamp : {now}]

\* the tracker has not posted its start yet
NotStarted == activities = <<>> /\ pending = EmptyBag

\* response.ok of the start request: its record is saved, and the socket
\* has no session yet
StartAnswered ==
    /\ \E i \in 1..Len(activities) : activities[i].sessionId = "p1"
    /\ \A s \in Sockets : activeMeetingSessions[s] = NoSession /\ epoch[s] = 0

\* the 30-second interval of setupHeartbeat is due on socket s
HeartbeatDue(s) ==
    activeMeetingSessions[s] # NoSession /\ activeMeetingSessions[s].lastSeen < now

\* half a minute passes; the tracker has emitted what it emits at once on
\* the start response, and every heartbeat that was due
LiveTick == TimedTick /\ ~StartAnswered /\ \A s \in Sockets : ~HeartbeatDue(s)

NextLive ==
    \/ LiveTick
    \/ CleanupTimer
    \/ EnhancedTimer
    \/ \E u \in UserIds, body \in LiveStartData :
          NotStarted /\ PostStart(u, body) /\ UNCHANGED otherVars
    \/ \E s \in Sockets, data \in LiveJoinData :
          StartAnswered /\ ParticipantJoined(s, data) /\ UNCHANGED otherVars
    \/ \E s \in Sockets, data \in LiveTouchData :
          HeartbeatDue(s) /\ MeetingHeartbeat(s, data) /\ UNCHANGED otherVars
    \/ \E op \in BagToSet(pending) : StoreSave(op) /\ UNCHANGED otherVars
    \/ \E op \in BagToSet(pending) : StoreUpdate(op) /\ UNCHANGED otherVars
    \/ \E op \in BagToSet(pending) : SweepFind(op) /\ UNCHANGED otherVars
    \/ \E op \in BagToSet(pending) : SweepSave(op) /\ UNCHANGED otherVars

InitLive == InitWith(MaxLiveOps)

SpecLive == InitLive /\ [][NextLive]_vars

\* C25: while the participant keeps sending meeting-heartbeat every 30
\* seconds, no record of the participation (the one of POST /start under
\* the client sessionId, the one of participant-joined-meeting under
\* socket.id) is completed by a sweep
LiveNeverSwept ==
    (\E s \in Sockets : /\ activeMeetingSessions[s] # NoSession
                        /\ activeMeetingSessions[s].lastSeen >= now - 1)
    => \A i \in 1..Len(activities) :
          activities[i].sessionId \in {"p1"} \cup Sockets
              => activities[i].status = "in-progress"

-----------------------------------------------------------------------------
(* SpecFlagTimer: the single-flag revision with one session after the other
   on a socket: a session is started when the socket has no unsaved one *)

MaxFlagOps == 4

FlagInstants == {0, 1}

\* the socket holds no session that still waits for its record
NoOpenSession(s) ==
    /\ IF meetingData[s] = NoSession THEN TRUE ELSE meetingData[s].activitySaved
    /\ \A op \in BagToSet(saving) : op.socket # s

NextFlagTimer ==
    \/ Tick(FlagInstants) /\ UNCHANGED otherVars
    \/ \E s \in Sockets, data \in HostData :
          NoOpenSession(s) /\ FlagMeetingStarted(s, data)
    \/ \E s \in Sockets, data \in JoinData :
          NoOpenSession(s) /\ FlagParticipantJoined(s, data)
    \/ \E s \in Sockets : FlagMeetingEnded(s, [meetingName |-> ""])
    \/ \E s \in Sockets : FlagHandleDisconnect(s)
    \/ \E op \in BagToSet(saving) : Saved(op)
    \/ \E s \in Sockets : ClearMeetingData(s)

InitFlagTimer == InitWith(MaxFlagOps)

SpecFlagTimer == InitFlagTimer /\ [][NextFlagTimer]_vars

\* the disconnect handler of socket s has run to its end
DisconnectFinished(s) ==
    ~connected[s] /\ \A op \in BagToSet(saving) : op.socket # s

\* C26: in the single-flag revision, once the disconnect handler of a socket
\* has finished, every session registered on that socket has its completed
\* record; the timer set by meeting-ended discards no later session
EverySessionRecorded ==
    \A s \in Sockets :
        DisconnectFinished(s) =>
            \A k \in 1..begun[s] :
                \E i \in 1..Len(origin) : origin[i].socket = s /\ origin[i].session = k

-----------------------------------------------------------------------------
\* the events of one name the tracker has emitted and the server has not
\* handled yet
Emitted(event) == Len(SelectSeq(wire, LAMBDA m : m.event = event))

\* C27: for one tracked session, however the exit events (end-call click,
\* beforeunload, popstate, exitMeeting) interleave with the awaited save
\* request, the tracker posts /api/meeting-activity at most once and emits
\* participant-left-meeting at most once
ClientExitOnce ==
    /\ Awaiting("handleMeetingExit") <= 1
    /\ Emitted("participant-left-meeting") <= 1

-----------------------------------------------------------------------------
(* SpecBeats: the participant's page with both sources of heartbeats *)

\* sendHeartbeat(), run by visibilitychange when the page is hidden
SendHeartbeat ==
    /\ tracker.connected /\ tracker.isTracking
    /\ Len(wire) < budget
    /\ wire' = Append(wire, [event |-> "meeting-heartbeat",
                             data |-> [meetingId |-> tracker.meetingId,
                                       userId |-> tracker.currentUser,
                                       meetingName |-> tracker.meetingName,
                                       timestamp |-> now]])
    /\ UNCHANGED <<now, budget, mapVars, flagVars, sideVars, tracker, fetching>>

NextBeats ==
    \/ NextClient
    \/ SendHeartbeat

SpecBeats == InitClient /\ [][NextBeats]_vars

\* the step emits event
Emits(event) ==
    /\ Len(wire') = Len(wire) + 1
    /\ wire'[Len(wire')].event = event

\* a heartbeat is emitted only while isTracking and connected
BeatOnlyTracking == Emits("meeting-heartbeat") => tracker.isTracking /\ tracker.connected

\* emitting participant-left-meeting ends the tracking and the interval
LeftStops ==
    Emits("participant-left-meeting") => ~tracker'.isTracking /\ ~tracker'.heartbeatInterval

\* tracking that was ended is not taken up again
StaysStopped == (tracker.initialized /\ ~tracker.isTracking /\ tracker.exits > 0)
                    => ~tracker'.isTracking

\* no heartbeat stands behind a participant-left-meeting on the socket
NoBeatAfterLeft ==
    \A i, j \in 1..Len(wire) :
        (i < j /\ wire[i].event = "participant-left-meeting")
            => wire[j].event # "meeting-heartbeat"

\* C28: the tracker emits meeting-heartbeat only while isTracking is true and
\* the socket is connected, and never after it has emitted
\* participant-left-meeting for the session
HeartbeatsWhileTracking ==
    []NoBeatAfterLeft /\ [][BeatOnlyTracking /\ LeftStops /\ StaysStopped]_vars

\* heartbeats were emitted, then participant-left-meeting, and the tracker
\* has stopped
LeftAfterBeats ==
    /\ ~tracker.isTracking /\ ~tracker.heartbeatInterval
    /\ \E i, j \in 1..Len(wire) :
          /\ i < j
          /\ wire[i].event = "meeting-heartbeat"
          /\ wire[j].event = "participant-left-meeting"

-----------------------------------------------------------------------------
(* SpecMigrate: migrateOldMeetings, run at startup and by
   POST /api/meetings/migrate.  A meeting is the tuple (schedulerEmail, date,
   time, title) the migration looks it up by *)

MaxRuns == 3

MeetingKeys == {"k1", "k2"}

\* the old collections the runs are checked on
OldCollections == {<<"k1">>, <<"k1", "k2">>, <<"k1", "k1">>}

\* where a run goes after one old meeting: to the next one, or to its end
Advance(run) ==
    IF Len(run.todo) > 1
    THEN [run EXCEPT !.pc = "findOne", !.todo = Tail(@)]
    ELSE [run EXCEPT !.pc = "idle", !.todo = <<>>]

\* migrateOldMeetings() is called and awaits Meeting.find({}); setupMeetingBooking
\* calls it once, the endpoint on every request
MigrateOldMeetings(r) ==
    /\ budget > 0
    /\ budget' = budget - 1
    /\ migrating[r].pc = "idle"
    /\ r = "startup" => migrating[r].ran = 0
    /\ migrating' = [migrating EXCEPT ![r].pc = "find", ![r].ran = @ + 1]
    /\ UNCHANGED <<now, mapVars, flagVars, trackerVars, timerVars,
                   oldMeetings, enhancedMeetings, creator, deleting>>

\* await Meeting.find({}) returns
FoundOld(r) ==
    /\ migrating[r].pc = "find"
    /\ migrating' = [migrating EXCEPT ![r] =
            IF oldMeetings = <<>> THEN [@ EXCEPT !.pc = "idle"]
            ELSE [@ EXCEPT !.pc = "findOne", !.todo = oldMeetings]]
    /\ UNCHANGED <<now, budget, mapVars, flagVars, trackerVars, timerVars,
                   oldMeetings, enhancedMeetings, creator, deleting>>

\* whether EnhancedMeeting.findOne({schedulerEmail, date, time, title}) finds one
ExistingEnhanced(enhanced, key) == \E i \in 1..Len(enhanced) : enhanced[i] = key

\* await EnhancedMeeting.findOne(...) returns: a migrated meeting is skipped,
\* another one is built (the User lookups change nothing) and saved
CheckedMigrated(r) ==
    /\ migrating[r].pc = "findOne"
    /\ migrating' = [migrating EXCEPT ![r] =
            IF ExistingEnhanced(enhancedMeetings, Head(@.todo))
            THEN Advance(@)
            ELSE [@ EXCEPT !.pc = "save"]]
    /\ UNCHANGED <<now, budget, mapVars, flagVars, trackerVars, timerVars,
                   oldMeetings, enhancedMeetings, creator, deleting>>

\* await enhancedMeeting.save() returns
SavedEnhanced(r) ==
    /\ migrating[r].pc = "save"
    /\ enhancedMeetings' = Append(enhancedMeetings, Head(migrating[r].todo))
    /\ migrating' = [migrating EXCEPT ![r] = Advance(@)]
    /\ UNCHANGED <<now, budget, mapVars, flagVars, trackerVars, timerVars,
                   oldMeetings, creator, deleting>>

NextMigrate ==
    \/ \E r \in Runs : MigrateOldMeetings(r)
    \/ \E r \in Runs : FoundOld(r)
    \/ \E r \in Runs : CheckedMigrated(r)
    \/ \E r \in Runs : SavedEnhanced(r)

InitMigrate ==
    /\ InitTracking(MaxRuns)
    /\ \E old \in OldCollections : InitBooking(old, 0)

SpecMigrate == InitMigrate /\ [][NextMigrate]_vars

\* the enhanced meetings of one (schedulerEmail, date, time, title)
EnhancedOf(key) == {i \in 1..Len(enhancedMeetings) : enhancedMeetings[i] = key}

\* C29: after any number of runs of migrateOldMeetings, overlapping or not,
\* the enhanced collection holds at most one meeting per (schedulerEmail,
\* date, time, title) of the old collection
MigrationIdempotent == \A key \in MeetingKeys : Cardinality(EnhancedOf(key)) <= 1

-----------------------------------------------------------------------------
(* SpecCreator: the MeetingCreator of the create-meeting page (part_000).
   The title field is modelled by the length of its trimmed value;
   creator.awaiting counts the fetches of /api/create-meeting not yet
   answered, creator.reading the answers whose response.json() is awaited,
   creator.response is the outcome of the last request *)

MaxCreatorOps == 4

MaxTitle == 100

TitleLengths == {0, 5, MaxTitle + 1}

Emails == {"", "a@b.c", "a@b"}

\* /^[^\s@]+@[^\s@]+\.[^\s@]+$/ on the addresses of Emails
IsValidEmail(email) == email = "a@b.c"

\* validateTitle(): whether the title error is shown
TitleInvalid(title) == title = 0 \/ title > MaxTitle

\* validateEmail(): whether the email error is shown
EmailInvalid(email) == email /= "" /\ ~IsValidEmail(email)

CreatorFrame == UNCHANGED <<now, mapVars, flagVars, trackerVars, timerVars,
                            oldMeetings, enhancedMeetings, migrating, deleting>>

\* one event of the page is handled
PageEvent ==
    /\ creator.page = "form"
    /\ budget > 0
    /\ budget' = budget - 1

\* the user edits the title: the input listener runs validateTitle()
TypeTitle(title) ==
    /\ PageEvent
    /\ creator' = [creator EXCEPT !.titleInput = title, !.titleError = TitleInvalid(title)]
    /\ CreatorFrame

\* the user edits the email field: the input listener runs validateEmail()
TypeEmail(email) ==
    /\ PageEvent
    /\ creator' = [creator EXCEPT !.emailInput = email, !.emailError = EmailInvalid(email)]
    /\ CreatorFrame

\* addParticipant()
AddParticipant ==
    /\ PageEvent
    /\ creator' =
         IF creator.emailInput = "" THEN creator
         ELSE IF ~IsValidEmail(creator.emailInput) \/ creator.emailInput \in creator.participants
              THEN [creator EXCEPT !.emailError = TRUE]
              ELSE [creator EXCEPT !.participants = @ \cup {creator.emailInput},
                                   !.emailInput = "", !.emailError = FALSE]
    /\ CreatorFrame

\* if (this.isCreating) return;
Busy(c) == c.isCreating

\* handleSubmit(e) up to its await fetch('/api/create-meeting', ...)
HandleSubmit ==
    /\ PageEvent
    /\ creator' =
         IF Busy(creator) THEN creator
         ELSE IF TitleInvalid(creator.titleInput) \/ EmailInvalid(creator.emailInput)
              THEN [creator EXCEPT !.titleError = TitleInvalid(creator.titleInput),
                                   !.emailError = EmailInvalid(creator.emailInput)]
              ELSE [creator EXCEPT !.titleError = FALSE, !.emailError = FALSE,
                                   !.isCreating = TRUE, !.submitBtnDisabled = TRUE,
                                   !.awaiting = @ + 1]
    /\ CreatorFrame

\* dismiss()
Dismiss ==
    /\ PageEvent
    /\ creator' = IF Busy(creator) THEN creator ELSE [creator EXCEPT !.page = "left"]
    /\ CreatorFrame

\* the catch block of handleSubmit
CreateFailed(c) ==
    [c EXCEPT !.titleError = TRUE, !.isCreating = FALSE, !.submitBtnDisabled = FALSE]

FetchOutcomes == {"rejected", "notOk", "ok"}

\* await fetch(...) returns: a rejected fetch and an answer that is not ok
\* go to the catch block, an ok answer to await response.json()
FetchReturns(outcome) ==
    /\ creator.page = "form"
    /\ creator.awaiting > 0
    /\ creator' =
         IF outcome = "ok"
         THEN [creator EXCEPT !.awaiting = @ - 1, !.reading = @ + 1]
         ELSE [CreateFailed(creator) EXCEPT !.awaiting = @ - 1, !.response = outcome]
    /\ UNCHANGED budget
    /\ CreatorFrame

\* await response.json() returns.  parsed: the body is JSON; thrown: one of
\* the statements after it throws (sessionStorage.setItem on a full or
\* blocked storage, data.meetingId of a null body, encodeURIComponent of a
\* title with a lone surrogate).  Otherwise the page goes to the host URL
JsonReturns(parsed, thrown) ==
    /\ creator.page = "form"
    /\ creator.reading > 0
    /\ creator' =
         IF ~parsed
         THEN [CreateFailed(creator) EXCEPT !.reading = @ - 1, !.response = "badJson"]
         ELSE IF thrown
              THEN [CreateFailed(creator) EXCEPT !.reading = @ - 1, !.response = "ok"]
              ELSE [creator EXCEPT !.reading = @ - 1, !.response = "ok", !.page = "host"]
    /\ UNCHANGED budget
    /\ CreatorFrame

NextCreator ==
    \/ \E title \in TitleLengths : TypeTitle(title)
    \/ \E email \in Emails : TypeEmail(email)
    \/ AddParticipant
    \/ HandleSubmit
    \/ Dismiss
    \/ \E outcome \in FetchOutcomes : FetchReturns(outcome)
    \/ \E parsed, thrown \in BOOLEAN : JsonReturns(parsed, thrown)

InitCreator ==
    /\ InitTracking(MaxCreatorOps)
    /\ \E title \in TitleLengths : InitBooking(<<>>, title)

SpecCreator == InitCreator /\ [][NextCreator]_vars

\* the create-meeting requests in flight
CreatesInFlight == creator.awaiting + creator.reading

\* a step in which handleSubmit or dismiss runs
HandlerStep == HandleSubmit \/ Dismiss

AtMostOneInFlight == CreatesInFlight <= 1 /\ (CreatesInFlight = 1 => creator.isCreating)

BusyHandlersNoOps == creator.isCreating /\ HandlerStep => creator' = creator

ResetOnlyOnFailure ==
    creator.isCreating /\ ~creator'.isCreating
        => creator'.response \in {"rejected", "notOk", "badJson"}

\* C30: at most one create-meeting request is in flight per MeetingCreator;
\* while isCreating is true handleSubmit and dismiss change nothing; and
\* isCreating returns to false only in a step in which the request failed
\* (fetch rejected, answer not ok, or body not JSON)
SingleCreateRequest ==
    []AtMostOneInFlight /\ [][BusyHandlersNoOps /\ ResetOnlyOnFailure]_vars

-----------------------------------------------------------------------------
(* SpecDelete: DELETE /api/meetings/:id next to the migration.  A document's
   _id is its collection and its place in it; one delete request is handled
   at a time, so that a place names the same document from findById to
   deleteOne (the migration only appends) *)

MaxBookingOps == 4

\* getCurrentUser(req) returned null: the session's user is not in User
NoCurrentUser == "null"

Requesters == {"alice", "bob", NoCurrentUser}

\* meeting.schedulerEmail
SchedulerEmail(key) == IF key = "k1" THEN "alice" ELSE "bob"

\* the ids a request can carry: of a document, or of none
MeetingDocIds ==
    {<<"old", i>> : i \in 1..(Len(oldMeetings) + 1)}
        \cup {<<"enhanced", i>> : i \in 1..(Len(enhancedMeetings) + 1)}

\* Model.findById(meetingId) finds a document
FoundById(collection, name, id) == id[1] = name /\ id[2] <= Len(collection)

\* meeting.deleteOne(): the document of that place leaves its collection
DeleteDocument(collection, i) ==
    SubSeq(collection, 1, i - 1) \o SubSeq(collection, i + 1, Len(collection))

\* Model.deleteOne({title, date, time, schedulerEmail}): the first match leaves
DeleteOneMatching(collection, key) ==
    IF ExistingEnhanced(collection, key)
    THEN DeleteDocument(collection,
             CHOOSE i \in 1..Len(collection) :
                 collection[i] = key /\ \A j \in 1..(i - 1) : collection[j] /= key)
    ELSE collection

DeleteFrame == UNCHANGED <<now, mapVars, flagVars, trackerVars, timerVars, migrating, creator>>

\* the request passes requireAuth, getCurrentUser answers, and the handler
\* awaits Meeting.findById(meetingId)
DeleteMeeting(id, user) ==
    /\ budget > 0
    /\ budget' = budget - 1
    /\ deleting.pc = "idle"
    /\ deleting' = [deleting EXCEPT !.pc = "findOld", !.id = id, !.currentUser = user,
                                    !.meeting = "", !.isEnhanced = FALSE, !.status = 0]
    /\ UNCHANGED <<oldMeetings, enhancedMeetings>>
    /\ DeleteFrame

\* the handler from the meeting it found to its await meeting.deleteOne():
\* currentUser.email of null throws into the catch block (500), another
\* user than the scheduler gets 403
Authorized(d, key, enhanced) ==
    IF d.currentUser = NoCurrentUser THEN [d EXCEPT !.pc = "idle", !.status = 500]
    ELSE IF SchedulerEmail(key) /= d.currentUser THEN [d EXCEPT !.pc = "idle", !.status = 403]
    ELSE [d EXCEPT !.pc = "deleteOne", !.meeting = key, !.isEnhanced = enhanced]

\* await Meeting.findById(meetingId) returns
FoundInOld ==
    /\ deleting.pc = "findOld"
    /\ deleting' = IF FoundById(oldMeetings, "old", deleting.id)
                   THEN Authorized(deleting, oldMeetings[deleting.id[2]], FALSE)
                   ELSE [deleting EXCEPT !.pc = "findEnhanced"]
    /\ UNCHANGED <<budget, oldMeetings, enhancedMeetings>>
    /\ DeleteFrame

\* await EnhancedMeeting.findById(meetingId) returns; no meeting: 404
FoundInEnhanced ==
    /\ deleting.pc = "findEnhanced"
    /\ deleting' = IF FoundById(enhancedMeetings, "enhanced", deleting.id)
                   THEN Authorized(deleting, enhancedMeetings[deleting.id[2]], TRUE)
                   ELSE [deleting EXCEPT !.pc = "idle", !.status = 404]
    /\ UNCHANGED <<budget, oldMeetings, enhancedMeetings>>
    /\ DeleteFrame

\* await meeting.deleteOne() returns
DeletedOne ==
    /\ deleting.pc = "deleteOne"
    /\ IF deleting.isEnhanced
       THEN /\ enhancedMeetings' = DeleteDocument(enhancedMeetings, deleting.id[2])
            /\ UNCHANGED oldMeetings
       ELSE /\ oldMeetings' = DeleteDocument(oldMeetings, deleting.id[2])
            /\ UNCHANGED enhancedMeetings
    /\ deleting' = [deleting EXCEPT !.pc = "deleteOther"]
    /\ UNCHANGED budget
    /\ DeleteFrame

\* the await deleteOne({title, date, time, schedulerEmail}) on the other
\* collection returns; io.emit('meeting-deleted'), res.json
DeletedOther ==
    /\ deleting.pc = "deleteOther"
    /\ IF deleting.isEnhanced
       THEN /\ oldMeetings' = DeleteOneMatching(oldMeetings, deleting.meeting)
            /\ UNCHANGED enhancedMeetings
       ELSE /\ enhancedMeetings' = DeleteOneMatching(enhancedMeetings, deleting.meeting)
            /\ UNCHANGED oldMeetings
    /\ deleting' = [deleting EXCEPT !.pc = "idle", !.status = 200, !.emitted = @ + 1]
    /\ UNCHANGED budget
    /\ DeleteFrame

NextDelete ==
    \/ NextMigrate
    \/ \E id \in MeetingDocIds, user \in Requesters : DeleteMeeting(id, user)
    \/ FoundInOld
    \/ FoundInEnhanced
    \/ DeletedOne
    \/ DeletedOther

InitDelete ==
    /\ InitTracking(MaxBookingOps)
    /\ \E old \in OldCollections : InitBooking(old, 0)

SpecDelete == InitDelete /\ [][NextDelete]_vars

\* the meetings of one (schedulerEmail, date, time, title) in the old collection
OldOf(key) == {i \in 1..Len(oldMeetings) : oldMeetings[i] = key}

\* the meeting the awaited findById finds, as a set: empty if there is none
FoundMeeting ==
    IF deleting.pc = "findOld" /\ FoundById(oldMeetings, "old", deleting.id)
    THEN {oldMeetings[deleting.id[2]]}
    ELSE IF deleting.pc = "findEnhanced"
              /\ FoundById(enhancedMeetings, "enhanced", deleting.id)
         THEN {enhancedMeetings[deleting.id[2]]}
         ELSE {}

\* a step in which a handler's findById returns
FindByIdReturns == deleting.pc \in {"findOld", "findEnhanced"} /\ deleting'.pc /= deleting.pc

NonSchedulerRefused ==
    FindByIdReturns
        => \A key \in FoundMeeting :
              SchedulerEmail(key) /= deleting.currentUser
                  => /\ deleting'.status = 403
                     /\ deleting'.pc = "idle"
                     /\ deleting'.emitted = deleting.emitted
                     /\ UNCHANGED <<oldMeetings, enhancedMeetings>>

\* the handler answers 200: when the old collection holds no meeting of that
\* (schedulerEmail, date, time, title) any more, the enhanced collection holds
\* no copy of one either.  (Two old meetings of one title, date and time are
\* two meetings: the other one may stay)
SchedulerRemovesBoth ==
    deleting.pc = "deleteOther" /\ deleting'.status = 200
        => (OldOf(deleting.meeting)' = {} => EnhancedOf(deleting.meeting)' = {})

\* only the scheduler's request gets as far as deleting
OnlySchedulerDeletes ==
    deleting.pc \in {"deleteOne", "deleteOther"}
        => deleting.currentUser = SchedulerEmail(deleting.meeting)

\* C31: a DELETE /api/meetings/:id by a user who is not the scheduler of the
\* meeting is answered 403, changes neither meeting collection and emits no
\* meeting-deleted; a delete by the scheduler leaves the meeting in neither
\* the old nor the enhanced collection
DeleteOnlyByScheduler ==
    []OnlySchedulerDeletes /\ [][NonSchedulerRefused /\ SchedulerRemovesBoth]_vars

====
